---------------------------- MODULE Spec2Model ----------------------------
(***************************************************************************)
(* RGB schemata (NIA, CFA, PFA, IFA, UDA): the validation programs of the   *)
(* five archetypes, the occurrence tables of their schemata, and the       *)
(* register machine that runs a program on a proposed genesis or           *)
(* transition.  A behaviour proposes one schema-conformant operation and   *)
(* executes its validator one instruction per step.                        *)
(***************************************************************************)
EXTENDS Integers, Sequences, FiniteSets, TLC

(***************************************************************************)
(* Bounds.                                                                 *)
(***************************************************************************)
\* Largest value of a 64-bit register, scaled down (stands for 2^64 - 1).
MaxU64 == 65535
\* Largest number of assignments on one side (inputs, outputs) of an operation.
MaxAssign == 2
\* Largest token index and owned fraction proposed for the unique asset.
MaxTokenIndex == 2
MaxFraction == 2
\* Number of distinct key pairs that may sign a transition.
NumKeys == 2

(***************************************************************************)
(* Crate-root constants (lib.rs).                                          *)
(***************************************************************************)
GS_ART == 3000
GS_ATTACH == 2104
GS_DETAILS == 3004
GS_ISSUED_SUPPLY == 2010
GS_MAX_SUPPLY == 2011
GS_NAME == 3001
GS_NOMINAL == 2000
GS_PRECISION == 3005
GS_TERMS == 2001
GS_TOKENS == 2102
GS_PUBKEY == 3006
\* Imported by ifa.rs from the crate root, which does not define it.
GS_REJECT_LIST_URL == 2012

OS_ASSET == 4000
OS_INFLATION == 4010
OS_REPLACE == 4012

TS_INFLATION == 8000
TS_BURN == 8010
TS_REPLACE == 8011
TS_TRANSFER == 10000

MS_ALLOWED_INFLATION == 1000

ERRNO_NON_EQUAL_IN_OUT == 0
ERRNO_ISSUED_MISMATCH == 1
ERRNO_NON_FRACTIONAL == 10
ERRNO_MISSING_PUBKEY == 20
ERRNO_INVALID_SIGNATURE == 21
ERRNO_INFLATION_MISMATCH == 30
ERRNO_INFLATION_EXCEEDS_ALLOWANCE == 31
\* Imported by ifa.rs from the crate root, which does not define them.
ERRNO_REPLACE_NO_INPUT == 40
ERRNO_REPLACE_HIDDEN_BURN == 41

GlobalSlots ==
    {GS_ART, GS_ATTACH, GS_DETAILS, GS_ISSUED_SUPPLY, GS_MAX_SUPPLY, GS_NAME,
     GS_NOMINAL, GS_PRECISION, GS_TERMS, GS_TOKENS, GS_PUBKEY, GS_REJECT_LIST_URL}
OwnedSlots == {OS_ASSET, OS_INFLATION, OS_REPLACE}
MetaSlots == {MS_ALLOWED_INFLATION}

(***************************************************************************)
(* Occurrences (rgbstd::schema::Occurrences) as [min, max] ranges.         *)
(***************************************************************************)
Once == [min |-> 1, max |-> 1]
NoneOrOnce == [min |-> 0, max |-> 1]
OnceOrMore == [min |-> 1, max |-> 65535]
NoneOrMore == [min |-> 0, max |-> 65535]
\* A slot a genesis or transition does not declare.
Absent == [min |-> 0, max |-> 0]

(***************************************************************************)
(* Option values: <<>> is an unset register, <<v>> a set one.              *)
(***************************************************************************)
None == << >>
Some(v) == << v >>
IsSome(o) == Len(o) = 1
Val(o) == o[1]

(***************************************************************************)
(* Strict encoding: little-endian unsigned integers in byte strings.       *)
(***************************************************************************)
RECURSIVE EncodeLE(_, _)
EncodeLE(v, n) ==
    IF n = 0 THEN << >> ELSE << v % 256 >> \o EncodeLE(v \div 256, n - 1)

RECURSIVE DecodeLE(_)
DecodeLE(bytes) ==
    IF bytes = << >> THEN 0 ELSE Head(bytes) + 256 * DecodeLE(Tail(bytes))

\* RGBContract.Amount: a u64.
EncodeAmount(v) == EncodeLE(v, 8)
\* RGBContract.Allocation: TokenIndex (u32) followed by OwnedFraction (u64).
EncodeAllocation(al) == EncodeLE(al.index, 4) \o EncodeLE(al.fraction, 8)
\* RGBContract.TokenData: TokenIndex (u32) first, then the optional fields
\* (ticker, name, details, preview, media, attachments, reserves), all empty.
EncodeTokenData(td) == EncodeLE(td.index, 4) \o [i \in 1..7 |-> 0]

(***************************************************************************)
(* Instructions of the programs (the rgbasm! subset the archetypes use).   *)
(***************************************************************************)
Put(r, v) == [op |-> "put", dst |-> r, imm |-> v]
Ldg(slot, idx, dst) == [op |-> "ldg", slot |-> slot, idx |-> idx, dst |-> dst]
Ldc(slot, idx, dst) == [op |-> "ldc", slot |-> slot, idx |-> idx, dst |-> dst]
Ldm(slot, dst) == [op |-> "ldm", slot |-> slot, dst |-> dst]
Ldp(ty, idx, dst) == [op |-> "ldp", ty |-> ty, idx |-> idx, dst |-> dst]
Lds(ty, idx, dst) == [op |-> "lds", ty |-> ty, idx |-> idx, dst |-> dst]
Extr(src, dst, off) == [op |-> "extr", src |-> src, dst |-> dst, off |-> off]
Svs(ty) == [op |-> "svs", ty |-> ty]
Sas(ty) == [op |-> "sas", ty |-> ty]
Sps(ty) == [op |-> "sps", ty |-> ty]
Cnp(ty, dst) == [op |-> "cnp", ty |-> ty, dst |-> dst]
Cns(ty, dst) == [op |-> "cns", ty |-> ty, dst |-> dst]
EqN(r1, r2) == [op |-> "eq.n", r1 |-> r1, r2 |-> r2]
LtU(r1, r2) == [op |-> "lt.u", r1 |-> r1, r2 |-> r2]
AddUc(r1, r2) == [op |-> "add.uc", r1 |-> r1, r2 |-> r2]
SubUc(r1, r2) == [op |-> "sub.uc", r1 |-> r1, r2 |-> r2]
Cpy(r1, r2) == [op |-> "cpy", r1 |-> r1, r2 |-> r2]
Vts(src) == [op |-> "vts", src |-> src]
Jmp(off) == [op |-> "jmp", off |-> off]
Jif(off) == [op |-> "jif", off |-> off]
InvSt0 == [op |-> "inv"]
Test == [op |-> "test"]
Ret == [op |-> "ret"]

\* Assembled size of an instruction in bytes, as the offset constants count
\* them: put 4, svs 3, test and ret 1 (nia.rs), ldp 4, jmp 3, ldg 4 (uda.rs).
InstrSize(i) ==
    CASE i.op \in {"put", "ldg", "ldc", "ldm", "ldp", "lds", "cnp", "cns"} -> 4
      [] i.op \in {"svs", "sas", "sps", "extr", "eq.n", "lt.u", "add.uc",
                   "sub.uc", "cpy", "jmp", "jif"} -> 3
      [] i.op = "vts" -> 2
      [] i.op \in {"inv", "test", "ret"} -> 1

RECURSIVE CodeSize(_)
CodeSize(code) ==
    IF code = << >> THEN 0 ELSE InstrSize(Head(code)) + CodeSize(Tail(code))

\* Byte offset of the k-th instruction of a program.
OffsetOf(code, k) == CodeSize(SubSeq(code, 1, k - 1))

(***************************************************************************)
(* nia.rs                                                                  *)
(***************************************************************************)
FN_NIA_GENESIS_OFFSET == 4 + 3 + 2
FN_NIA_TRANSFER_OFFSET == 0

\* nia_lib with the genesis subroutine announcing the transfer error code.
nia_lib_genesis_errno_swapped ==
    << \* SUBROUTINE Transfer validation
       Put("a8[0]", ERRNO_NON_EQUAL_IN_OUT),
       Svs(OS_ASSET),
       Test,
       Ret,
       \* SUBROUTINE Genesis validation
       Put("a8[0]", ERRNO_NON_EQUAL_IN_OUT),
       Put("a8[1]", 0),
       Put("a16[0]", 0),
       Ldg(GS_ISSUED_SUPPLY, "a8[1]", "s16[0]"),
       Extr("s16[0]", "a64[0]", "a16[0]"),
       Sas(OS_ASSET),
       Test,
       Ret >>

\* nia_lib with the transfer subroutine returning before its test.
nia_lib_transfer_ret_first ==
    << \* SUBROUTINE Transfer validation
       Put("a8[0]", ERRNO_NON_EQUAL_IN_OUT),
       Svs(OS_ASSET),
       Ret,
       Test,
       \* SUBROUTINE Genesis validation
       Put("a8[0]", ERRNO_ISSUED_MISMATCH),
       Put("a8[1]", 0),
       Put("a16[0]", 0),
       Ldg(GS_ISSUED_SUPPLY, "a8[1]", "s16[0]"),
       Extr("s16[0]", "a64[0]", "a16[0]"),
       Sas(OS_ASSET),
       Test,
       Ret >>

\* nia_lib with the transfer subroutine summing the wrong slot.
nia_lib_transfer_wrong_slot ==
    << \* SUBROUTINE Transfer validation
       Put("a8[0]", ERRNO_NON_EQUAL_IN_OUT),
       Svs(OS_INFLATION),
       Test,
       Ret,
       \* SUBROUTINE Genesis validation
       Put("a8[0]", ERRNO_ISSUED_MISMATCH),
       Put("a8[1]", 0),
       Put("a16[0]", 0),
       Ldg(GS_ISSUED_SUPPLY, "a8[1]", "s16[0]"),
       Extr("s16[0]", "a64[0]", "a16[0]"),
       Sas(OS_ASSET),
       Test,
       Ret >>

\* nia_lib whose transfer subroutine lacks its ret.
nia_lib_transfer_no_ret ==
    << Put("a8[0]", ERRNO_NON_EQUAL_IN_OUT),
       Svs(OS_ASSET),
       Test,
       Put("a8[0]", ERRNO_ISSUED_MISMATCH),
       Put("a8[1]", 0),
       Put("a16[0]", 0),
       Ldg(GS_ISSUED_SUPPLY, "a8[1]", "s16[0]"),
       Extr("s16[0]", "a64[0]", "a16[0]"),
       Sas(OS_ASSET),
       Test,
       Ret >>

nia_lib ==
    << \* SUBROUTINE Transfer validation
       Put("a8[0]", ERRNO_NON_EQUAL_IN_OUT),
       Svs(OS_ASSET),
       Test,
       Ret,
       \* SUBROUTINE Genesis validation
       Put("a8[0]", ERRNO_ISSUED_MISMATCH),
       Put("a8[1]", 0),
       Put("a16[0]", 0),
       Ldg(GS_ISSUED_SUPPLY, "a8[1]", "s16[0]"),
       Extr("s16[0]", "a64[0]", "a16[0]"),
       Sas(OS_ASSET),
       Test,
       Ret >>

(***************************************************************************)
(* pfa.rs                                                                  *)
(***************************************************************************)
\* pfa_lib_transition with the signature check ahead of the sum check.
pfa_lib_transition_signature_first ==
    << \* Check transition signature
       Put("a8[0]", ERRNO_MISSING_PUBKEY),
       Put("a32[0]", 0),
       Ldc(GS_PUBKEY, "a32[0]", "s16[0]"),
       Put("a8[0]", ERRNO_INVALID_SIGNATURE),
       Vts("s16[0]"),
       Test,
       Put("a8[0]", ERRNO_NON_EQUAL_IN_OUT),
       Svs(OS_ASSET),
       Test,
       Ret >>

\* pfa_lib_transition without the test that follows the signature check.
pfa_lib_transition_signature_untested ==
    << Put("a8[0]", ERRNO_NON_EQUAL_IN_OUT),
       Svs(OS_ASSET),
       Test,
       \* Check transition signature
       Put("a8[0]", ERRNO_MISSING_PUBKEY),
       Put("a32[0]", 0),
       Ldc(GS_PUBKEY, "a32[0]", "s16[0]"),
       Put("a8[0]", ERRNO_INVALID_SIGNATURE),
       Vts("s16[0]"),
       Ret >>

pfa_lib_transition ==
    << Put("a8[0]", ERRNO_NON_EQUAL_IN_OUT),
       Svs(OS_ASSET),
       Test,
       \* Check transition signature
       Put("a8[0]", ERRNO_MISSING_PUBKEY),
       Put("a32[0]", 0),
       Ldc(GS_PUBKEY, "a32[0]", "s16[0]"),
       Put("a8[0]", ERRNO_INVALID_SIGNATURE),
       Vts("s16[0]"),
       Test,
       Ret >>

\* pfa_lib_genesis setting its error code only after the load.
pfa_lib_genesis_errno_late ==
    << Put("a8[1]", 0),
       Put("a16[0]", 0),
       Ldg(GS_ISSUED_SUPPLY, "a8[1]", "s16[0]"),
       Put("a8[0]", ERRNO_ISSUED_MISMATCH),
       Extr("s16[0]", "a64[0]", "a16[0]"),
       Sas(OS_ASSET),
       Test,
       Ret >>

\* pfa_lib_genesis without the test that follows the sum check.
pfa_lib_genesis_sum_untested ==
    << Put("a8[0]", ERRNO_ISSUED_MISMATCH),
       Put("a8[1]", 0),
       Put("a16[0]", 0),
       Ldg(GS_ISSUED_SUPPLY, "a8[1]", "s16[0]"),
       Extr("s16[0]", "a64[0]", "a16[0]"),
       Sas(OS_ASSET),
       Ret >>

pfa_lib_genesis ==
    << Put("a8[0]", ERRNO_ISSUED_MISMATCH),
       Put("a8[1]", 0),
       Put("a16[0]", 0),
       Ldg(GS_ISSUED_SUPPLY, "a8[1]", "s16[0]"),
       Extr("s16[0]", "a64[0]", "a16[0]"),
       Sas(OS_ASSET),
       Test,
       Ret >>

(***************************************************************************)
(* ifa.rs                                                                  *)
(***************************************************************************)
\* ifa_lib_genesis comparing max - issued with the asset allocations.
ifa_lib_genesis_inflation_vs_assets ==
    << \* Set common offsets
       Put("a8[1]", 0),
       Put("a16[0]", 0),
       \* Check reported issued supply against sum of asset allocations
       Put("a8[0]", ERRNO_ISSUED_MISMATCH),
       Ldg(GS_ISSUED_SUPPLY, "a8[1]", "s16[0]"),
       Extr("s16[0]", "a64[0]", "a16[0]"),
       Sas(OS_ASSET),
       Test,
       \* Check that sum of inflation rights = max supply - issued supply
       Put("a8[0]", ERRNO_INFLATION_MISMATCH),
       Ldg(GS_MAX_SUPPLY, "a8[1]", "s16[1]"),
       Extr("s16[1]", "a64[1]", "a16[0]"),
       SubUc("a64[1]", "a64[0]"),
       Test,
       Sas(OS_ASSET),
       Test,
       Ret >>

\* ifa_lib_genesis without the test that follows the issued-supply check.
ifa_lib_genesis_issued_untested ==
    << \* Set common offsets
       Put("a8[1]", 0),
       Put("a16[0]", 0),
       \* Check reported issued supply against sum of asset allocations
       Put("a8[0]", ERRNO_ISSUED_MISMATCH),
       Ldg(GS_ISSUED_SUPPLY, "a8[1]", "s16[0]"),
       Extr("s16[0]", "a64[0]", "a16[0]"),
       Sas(OS_ASSET),
       \* Check that sum of inflation rights = max supply - issued supply
       Put("a8[0]", ERRNO_INFLATION_MISMATCH),
       Ldg(GS_MAX_SUPPLY, "a8[1]", "s16[1]"),
       Extr("s16[1]", "a64[1]", "a16[0]"),
       SubUc("a64[1]", "a64[0]"),
       Test,
       Sas(OS_INFLATION),
       Test,
       Ret >>

ifa_lib_genesis ==
    << \* Set common offsets
       Put("a8[1]", 0),
       Put("a16[0]", 0),
       \* Check reported issued supply against sum of asset allocations
       Put("a8[0]", ERRNO_ISSUED_MISMATCH),
       Ldg(GS_ISSUED_SUPPLY, "a8[1]", "s16[0]"),
       Extr("s16[0]", "a64[0]", "a16[0]"),
       Sas(OS_ASSET),
       Test,
       \* Check that sum of inflation rights = max supply - issued supply
       Put("a8[0]", ERRNO_INFLATION_MISMATCH),
       Ldg(GS_MAX_SUPPLY, "a8[1]", "s16[1]"),
       Extr("s16[1]", "a64[1]", "a16[0]"),
       SubUc("a64[1]", "a64[0]"),
       Test,
       Sas(OS_INFLATION),
       Test,
       Ret >>

\* ifa_lib_transfer with the operands of the count comparison exchanged.
ifa_lib_transfer_lt_swapped ==
    << \* Checking that the sum of inputs is equal to the sum of outputs
       Put("a8[0]", ERRNO_NON_EQUAL_IN_OUT),
       Svs(OS_ASSET),
       Test,
       Svs(OS_INFLATION),
       Test,
       \* Replace rights validation
       Cnp(OS_REPLACE, "a16[0]"),
       Cns(OS_REPLACE, "a16[1]"),
       Put("a16[2]", 0),
       EqN("a16[0]", "a16[2]"),
       Jif(40),
       \* Input count > 0, check that output count >= input count
       Put("a8[0]", ERRNO_REPLACE_HIDDEN_BURN),
       LtU("a16[0]", "a16[1]"),
       InvSt0,
       Test,
       Ret,
       \* 0x28: Input count is 0, output count must also be 0
       Put("a8[0]", ERRNO_REPLACE_NO_INPUT),
       EqN("a16[1]", "a16[0]"),
       Test,
       Ret >>

ifa_lib_transfer ==
    << \* Checking that the sum of inputs is equal to the sum of outputs
       Put("a8[0]", ERRNO_NON_EQUAL_IN_OUT),
       Svs(OS_ASSET),
       Test,
       Svs(OS_INFLATION),
       Test,
       \* Replace rights validation
       Cnp(OS_REPLACE, "a16[0]"),
       Cns(OS_REPLACE, "a16[1]"),
       Put("a16[2]", 0),
       EqN("a16[0]", "a16[2]"),
       Jif(40),
       \* Input count > 0, check that output count >= input count
       Put("a8[0]", ERRNO_REPLACE_HIDDEN_BURN),
       LtU("a16[1]", "a16[0]"),
       InvSt0,
       Test,
       Ret,
       \* 0x28: Input count is 0, output count must also be 0
       Put("a8[0]", ERRNO_REPLACE_NO_INPUT),
       EqN("a16[1]", "a16[0]"),
       Test,
       Ret >>

\* ifa_lib_inflation comparing issued + allowed with the inflation outputs.
ifa_lib_inflation_outputs_vs_total ==
    << \* Set common offsets
       Put("a8[1]", 0),
       Put("a16[0]", 0),
       \* Check reported issued supply equals sum of asset allocations
       Put("a8[0]", ERRNO_ISSUED_MISMATCH),
       Ldg(GS_ISSUED_SUPPLY, "a8[1]", "s16[0]"),
       Extr("s16[0]", "a64[0]", "a16[0]"),
       Sas(OS_ASSET),
       Test,
       Cpy("a64[0]", "a64[1]"),
       \* Check reported allowed inflation equals sum of inflation rights
       Put("a8[0]", ERRNO_INFLATION_MISMATCH),
       Ldm(MS_ALLOWED_INFLATION, "s16[0]"),
       Extr("s16[0]", "a64[0]", "a16[0]"),
       Sas(OS_INFLATION),
       Test,
       \* Check that input inflation rights equals issued supply + allowed
       Put("a8[0]", ERRNO_INFLATION_EXCEEDS_ALLOWANCE),
       AddUc("a64[1]", "a64[0]"),
       Test,
       Sas(OS_INFLATION),
       Test,
       Ret >>

\* ifa_lib_inflation without the comparison of the spent inflation rights.
ifa_lib_inflation_inputs_unchecked ==
    << Put("a8[1]", 0),
       Put("a16[0]", 0),
       Put("a8[0]", ERRNO_ISSUED_MISMATCH),
       Ldg(GS_ISSUED_SUPPLY, "a8[1]", "s16[0]"),
       Extr("s16[0]", "a64[0]", "a16[0]"),
       Sas(OS_ASSET),
       Test,
       Cpy("a64[0]", "a64[1]"),
       Put("a8[0]", ERRNO_INFLATION_MISMATCH),
       Ldm(MS_ALLOWED_INFLATION, "s16[0]"),
       Extr("s16[0]", "a64[0]", "a16[0]"),
       Sas(OS_INFLATION),
       Test,
       Put("a8[0]", ERRNO_INFLATION_EXCEEDS_ALLOWANCE),
       AddUc("a64[1]", "a64[0]"),
       Test,
       Ret >>

\* ifa_lib_inflation without the test that follows the checked addition.
ifa_lib_inflation_add_untested ==
    << \* Set common offsets
       Put("a8[1]", 0),
       Put("a16[0]", 0),
       \* Check reported issued supply equals sum of asset allocations
       Put("a8[0]", ERRNO_ISSUED_MISMATCH),
       Ldg(GS_ISSUED_SUPPLY, "a8[1]", "s16[0]"),
       Extr("s16[0]", "a64[0]", "a16[0]"),
       Sas(OS_ASSET),
       Test,
       Cpy("a64[0]", "a64[1]"),
       \* Check reported allowed inflation equals sum of inflation rights
       Put("a8[0]", ERRNO_INFLATION_MISMATCH),
       Ldm(MS_ALLOWED_INFLATION, "s16[0]"),
       Extr("s16[0]", "a64[0]", "a16[0]"),
       Sas(OS_INFLATION),
       Test,
       \* Check that input inflation rights equals issued supply + allowed
       Put("a8[0]", ERRNO_INFLATION_EXCEEDS_ALLOWANCE),
       AddUc("a64[1]", "a64[0]"),
       Sps(OS_INFLATION),
       Test,
       Ret >>

ifa_lib_inflation ==
    << \* Set common offsets
       Put("a8[1]", 0),
       Put("a16[0]", 0),
       \* Check reported issued supply equals sum of asset allocations
       Put("a8[0]", ERRNO_ISSUED_MISMATCH),
       Ldg(GS_ISSUED_SUPPLY, "a8[1]", "s16[0]"),
       Extr("s16[0]", "a64[0]", "a16[0]"),
       Sas(OS_ASSET),
       Test,
       Cpy("a64[0]", "a64[1]"),
       \* Check reported allowed inflation equals sum of inflation rights
       Put("a8[0]", ERRNO_INFLATION_MISMATCH),
       Ldm(MS_ALLOWED_INFLATION, "s16[0]"),
       Extr("s16[0]", "a64[0]", "a16[0]"),
       Sas(OS_INFLATION),
       Test,
       \* Check that input inflation rights equals issued supply + allowed
       Put("a8[0]", ERRNO_INFLATION_EXCEEDS_ALLOWANCE),
       AddUc("a64[1]", "a64[0]"),
       Test,
       Sps(OS_INFLATION),
       Test,
       Ret >>

(***************************************************************************)
(* uda.rs                                                                  *)
(***************************************************************************)
FN_GENESIS_OFFSET == 4 + 4 + 3
FN_TRANSFER_OFFSET == 0
FN_SHARED_OFFSET == FN_GENESIS_OFFSET + 4 + 4 + 4

\* uda_lib requiring a fraction of 2.
uda_lib_fraction_two ==
    << \* SUBROUTINE 2: Transfer validation
       Put("a16[0]", 0),
       Ldp(OS_ASSET, "a16[0]", "s16[0]"),
       Jmp(FN_SHARED_OFFSET),
       \* SUBROUTINE 1: Genesis validation
       Put("a16[0]", 0),
       Put("a8[1]", 0),
       Ldg(GS_TOKENS, "a8[1]", "s16[0]"),
       \* SUBROUTINE 3: Shared code
       Put("a8[0]", ERRNO_NON_EQUAL_IN_OUT),
       Extr("s16[0]", "a32[0]", "a16[0]"),
       Put("a16[1]", 0),
       Lds(OS_ASSET, "a16[1]", "s16[1]"),
       Extr("s16[1]", "a32[1]", "a16[0]"),
       EqN("a32[0]", "a32[1]"),
       Test,
       Put("a8[0]", ERRNO_NON_FRACTIONAL),
       Put("a16[2]", 4),
       Extr("s16[1]", "a64[0]", "a16[2]"),
       Put("a64[1]", 2),
       EqN("a64[0]", "a64[1]"),
       Test >>

\* uda_lib with the transfer subroutine jumping into the genesis one.
uda_lib_transfer_into_genesis ==
    << \* SUBROUTINE 2: Transfer validation
       Put("a16[0]", 0),
       Ldp(OS_ASSET, "a16[0]", "s16[0]"),
       Jmp(FN_GENESIS_OFFSET),
       \* SUBROUTINE 1: Genesis validation
       Put("a16[0]", 0),
       Put("a8[1]", 0),
       Ldg(GS_TOKENS, "a8[1]", "s16[0]"),
       \* SUBROUTINE 3: Shared code
       Put("a8[0]", ERRNO_NON_EQUAL_IN_OUT),
       Extr("s16[0]", "a32[0]", "a16[0]"),
       Put("a16[1]", 0),
       Lds(OS_ASSET, "a16[1]", "s16[1]"),
       Extr("s16[1]", "a32[1]", "a16[0]"),
       EqN("a32[0]", "a32[1]"),
       Test,
       Put("a8[0]", ERRNO_NON_FRACTIONAL),
       Put("a16[2]", 4),
       Extr("s16[1]", "a64[0]", "a16[2]"),
       Put("a64[1]", 1),
       EqN("a64[0]", "a64[1]"),
       Test >>

\* uda_lib reading the fraction before it sets the offset of the fraction.
uda_lib_offset_set_late ==
    << \* SUBROUTINE 2: Transfer validation
       Put("a16[0]", 0),
       Ldp(OS_ASSET, "a16[0]", "s16[0]"),
       Jmp(FN_SHARED_OFFSET),
       \* SUBROUTINE 1: Genesis validation
       Put("a16[0]", 0),
       Put("a8[1]", 0),
       Ldg(GS_TOKENS, "a8[1]", "s16[0]"),
       \* SUBROUTINE 3: Shared code
       Put("a8[0]", ERRNO_NON_EQUAL_IN_OUT),
       Extr("s16[0]", "a32[0]", "a16[0]"),
       Put("a16[1]", 0),
       Lds(OS_ASSET, "a16[1]", "s16[1]"),
       Extr("s16[1]", "a32[1]", "a16[0]"),
       EqN("a32[0]", "a32[1]"),
       Test,
       Put("a8[0]", ERRNO_NON_FRACTIONAL),
       Extr("s16[1]", "a64[0]", "a16[2]"),
       Put("a16[2]", 4),
       Put("a64[1]", 1),
       EqN("a64[0]", "a64[1]"),
       Test >>

\* uda_lib with the transfer subroutine jumping back to its own start.
uda_lib_transfer_loops ==
    << \* SUBROUTINE 2: Transfer validation
       Put("a16[0]", 0),
       Ldp(OS_ASSET, "a16[0]", "s16[0]"),
       Jmp(FN_TRANSFER_OFFSET),
       \* SUBROUTINE 1: Genesis validation
       Put("a16[0]", 0),
       Put("a8[1]", 0),
       Ldg(GS_TOKENS, "a8[1]", "s16[0]"),
       \* SUBROUTINE 3: Shared code
       Put("a8[0]", ERRNO_NON_EQUAL_IN_OUT),
       Extr("s16[0]", "a32[0]", "a16[0]"),
       Put("a16[1]", 0),
       Lds(OS_ASSET, "a16[1]", "s16[1]"),
       Extr("s16[1]", "a32[1]", "a16[0]"),
       EqN("a32[0]", "a32[1]"),
       Test,
       Put("a8[0]", ERRNO_NON_FRACTIONAL),
       Put("a16[2]", 4),
       Extr("s16[1]", "a64[0]", "a16[2]"),
       Put("a64[1]", 1),
       EqN("a64[0]", "a64[1]"),
       Test >>

\* uda_lib whose genesis subroutine reads the attachment types.
uda_lib_genesis_reads_attach ==
    << Put("a16[0]", 0),
       Ldp(OS_ASSET, "a16[0]", "s16[0]"),
       Jmp(FN_SHARED_OFFSET),
       Put("a16[0]", 0),
       Put("a8[1]", 0),
       Ldg(GS_ATTACH, "a8[1]", "s16[0]"),
       Put("a8[0]", ERRNO_NON_EQUAL_IN_OUT),
       Extr("s16[0]", "a32[0]", "a16[0]"),
       Put("a16[1]", 0),
       Lds(OS_ASSET, "a16[1]", "s16[1]"),
       Extr("s16[1]", "a32[1]", "a16[0]"),
       EqN("a32[0]", "a32[1]"),
       Test,
       Put("a8[0]", ERRNO_NON_FRACTIONAL),
       Put("a16[2]", 4),
       Extr("s16[1]", "a64[0]", "a16[2]"),
       Put("a64[1]", 1),
       EqN("a64[0]", "a64[1]"),
       Test >>

uda_lib ==
    << \* SUBROUTINE 2: Transfer validation
       Put("a16[0]", 0),
       Ldp(OS_ASSET, "a16[0]", "s16[0]"),
       Jmp(FN_SHARED_OFFSET),
       \* SUBROUTINE 1: Genesis validation
       Put("a16[0]", 0),
       Put("a8[1]", 0),
       Ldg(GS_TOKENS, "a8[1]", "s16[0]"),
       \* SUBROUTINE 3: Shared code
       Put("a8[0]", ERRNO_NON_EQUAL_IN_OUT),
       Extr("s16[0]", "a32[0]", "a16[0]"),
       Put("a16[1]", 0),
       Lds(OS_ASSET, "a16[1]", "s16[1]"),
       Extr("s16[1]", "a32[1]", "a16[0]"),
       EqN("a32[0]", "a32[1]"),
       Test,
       Put("a8[0]", ERRNO_NON_FRACTIONAL),
       Put("a16[2]", 4),
       Extr("s16[1]", "a64[0]", "a16[2]"),
       Put("a64[1]", 1),
       EqN("a64[0]", "a64[1]"),
       Test >>

\* Lib ids (content hashes) by name, and scripts(): the libraries by id.
Libs ==
    [nia_lib |-> nia_lib,
     pfa_lib_transition |-> pfa_lib_transition,
     pfa_lib_genesis |-> pfa_lib_genesis,
     ifa_lib_genesis |-> ifa_lib_genesis,
     ifa_lib_transfer |-> ifa_lib_transfer,
     ifa_lib_inflation |-> ifa_lib_inflation,
     uda_lib |-> uda_lib]

LibSite(pos, lib) == [lib |-> lib, pos |-> pos]
NoValidator == [lib |-> "none", pos |-> 0]

(***************************************************************************)
(* Schemata.  A map written with :> and @@ declares exactly its keys.      *)
(***************************************************************************)
NoSlots == [k \in {} |-> Absent]
\* Occurrences of a slot in a declaration, Absent when it is not declared.
OccOf(decl, k) == IF k \in DOMAIN decl THEN decl[k] ELSE Absent

GlobalOnce(sem) == [max_items |-> 1, sem |-> sem]
GlobalMany(sem) == [max_items |-> 16777215, sem |-> sem]

\* nia_schema whose transfer may declare an issued supply.
nia_schema_transfer_declares_supply ==
    [name |-> "NonInflatableAsset",
     meta_types |-> {},
     global_types |->
         (GS_NOMINAL :> GlobalOnce("RGBContract.AssetSpec")) @@
         (GS_TERMS :> GlobalOnce("RGBContract.ContractTerms")) @@
         (GS_ISSUED_SUPPLY :> GlobalOnce("RGBContract.Amount")),
     owned_types |->
         (OS_ASSET :> [kind |-> "fungible", default_transition |-> TS_TRANSFER]),
     genesis |->
         [metadata |-> {},
          globals |-> (GS_NOMINAL :> Once) @@ (GS_TERMS :> Once) @@
                      (GS_ISSUED_SUPPLY :> Once),
          assignments |-> (OS_ASSET :> OnceOrMore),
          validator |-> LibSite(FN_NIA_GENESIS_OFFSET, "nia_lib")],
     transitions |->
         (TS_TRANSFER :>
             [metadata |-> {},
              globals |-> (GS_ISSUED_SUPPLY :> NoneOrOnce),
              inputs |-> (OS_ASSET :> OnceOrMore),
              assignments |-> (OS_ASSET :> OnceOrMore),
              validator |-> LibSite(FN_NIA_TRANSFER_OFFSET, "nia_lib")])]

nia_schema ==
    [name |-> "NonInflatableAsset",
     meta_types |-> {},
     global_types |->
         (GS_NOMINAL :> GlobalOnce("RGBContract.AssetSpec")) @@
         (GS_TERMS :> GlobalOnce("RGBContract.ContractTerms")) @@
         (GS_ISSUED_SUPPLY :> GlobalOnce("RGBContract.Amount")),
     owned_types |->
         (OS_ASSET :> [kind |-> "fungible", default_transition |-> TS_TRANSFER]),
     genesis |->
         [metadata |-> {},
          globals |-> (GS_NOMINAL :> Once) @@ (GS_TERMS :> Once) @@
                      (GS_ISSUED_SUPPLY :> Once),
          assignments |-> (OS_ASSET :> OnceOrMore),
          validator |-> LibSite(FN_NIA_GENESIS_OFFSET, "nia_lib")],
     transitions |->
         (TS_TRANSFER :>
             [metadata |-> {},
              globals |-> NoSlots,
              inputs |-> (OS_ASSET :> OnceOrMore),
              assignments |-> (OS_ASSET :> OnceOrMore),
              validator |-> LibSite(FN_NIA_TRANSFER_OFFSET, "nia_lib")])]

\* cfa_schema whose transfer enters nia_lib at the genesis subroutine.
cfa_schema_transfer_at_genesis ==
    [name |-> "CollectibleFungibleAsset",
     meta_types |-> {},
     global_types |->
         (GS_ART :> GlobalOnce("RGBContract.Article")) @@
         (GS_NAME :> GlobalOnce("RGBContract.Name")) @@
         (GS_DETAILS :> GlobalOnce("RGBContract.Details")) @@
         (GS_PRECISION :> GlobalOnce("RGBContract.Precision")) @@
         (GS_TERMS :> GlobalOnce("RGBContract.ContractTerms")) @@
         (GS_ISSUED_SUPPLY :> GlobalOnce("RGBContract.Amount")),
     owned_types |->
         (OS_ASSET :> [kind |-> "fungible", default_transition |-> TS_TRANSFER]),
     genesis |->
         [metadata |-> {},
          globals |-> (GS_ART :> NoneOrOnce) @@ (GS_NAME :> Once) @@
                      (GS_DETAILS :> NoneOrOnce) @@ (GS_PRECISION :> Once) @@
                      (GS_TERMS :> Once) @@ (GS_ISSUED_SUPPLY :> Once),
          assignments |-> (OS_ASSET :> OnceOrMore),
          validator |-> LibSite(FN_NIA_GENESIS_OFFSET, "nia_lib")],
     transitions |->
         (TS_TRANSFER :>
             [metadata |-> {},
              globals |-> NoSlots,
              inputs |-> (OS_ASSET :> OnceOrMore),
              assignments |-> (OS_ASSET :> OnceOrMore),
              validator |-> LibSite(FN_NIA_GENESIS_OFFSET, "nia_lib")])]

cfa_schema ==
    [name |-> "CollectibleFungibleAsset",
     meta_types |-> {},
     global_types |->
         (GS_ART :> GlobalOnce("RGBContract.Article")) @@
         (GS_NAME :> GlobalOnce("RGBContract.Name")) @@
         (GS_DETAILS :> GlobalOnce("RGBContract.Details")) @@
         (GS_PRECISION :> GlobalOnce("RGBContract.Precision")) @@
         (GS_TERMS :> GlobalOnce("RGBContract.ContractTerms")) @@
         (GS_ISSUED_SUPPLY :> GlobalOnce("RGBContract.Amount")),
     owned_types |->
         (OS_ASSET :> [kind |-> "fungible", default_transition |-> TS_TRANSFER]),
     genesis |->
         [metadata |-> {},
          globals |-> (GS_ART :> NoneOrOnce) @@ (GS_NAME :> Once) @@
                      (GS_DETAILS :> NoneOrOnce) @@ (GS_PRECISION :> Once) @@
                      (GS_TERMS :> Once) @@ (GS_ISSUED_SUPPLY :> Once),
          assignments |-> (OS_ASSET :> OnceOrMore),
          validator |-> LibSite(FN_NIA_GENESIS_OFFSET, "nia_lib")],
     transitions |->
         (TS_TRANSFER :>
             [metadata |-> {},
              globals |-> NoSlots,
              inputs |-> (OS_ASSET :> OnceOrMore),
              assignments |-> (OS_ASSET :> OnceOrMore),
              validator |-> LibSite(FN_NIA_TRANSFER_OFFSET, "nia_lib")])]

pfa_schema ==
    [name |-> "PermissionedFungibleAsset",
     meta_types |-> {},
     global_types |->
         (GS_NOMINAL :> GlobalOnce("RGBContract.AssetSpec")) @@
         (GS_TERMS :> GlobalOnce("RGBContract.ContractTerms")) @@
         (GS_ISSUED_SUPPLY :> GlobalOnce("RGBContract.Amount")) @@
         (GS_PUBKEY :> GlobalOnce("RGBContract.PublicKey")),
     owned_types |->
         (OS_ASSET :> [kind |-> "fungible", default_transition |-> TS_TRANSFER]),
     genesis |->
         [metadata |-> {},
          globals |-> (GS_NOMINAL :> Once) @@ (GS_TERMS :> Once) @@
                      (GS_ISSUED_SUPPLY :> Once) @@ (GS_PUBKEY :> Once),
          assignments |-> (OS_ASSET :> OnceOrMore),
          validator |-> LibSite(0, "pfa_lib_genesis")],
     transitions |->
         (TS_TRANSFER :>
             [metadata |-> {},
              globals |-> NoSlots,
              inputs |-> (OS_ASSET :> OnceOrMore),
              assignments |-> (OS_ASSET :> OnceOrMore),
              validator |-> LibSite(0, "pfa_lib_transition")])]

\* ifa_schema with the transfer validator attached to the burn transition.
ifa_schema_burn_validated ==
    [name |-> "InflatableFungibleAsset",
     meta_types |-> {MS_ALLOWED_INFLATION},
     global_types |->
         (GS_NOMINAL :> GlobalOnce("RGBContract.AssetSpec")) @@
         (GS_TERMS :> GlobalOnce("RGBContract.ContractTerms")) @@
         (GS_ISSUED_SUPPLY :> GlobalMany("RGBContract.Amount")) @@
         (GS_MAX_SUPPLY :> GlobalOnce("RGBContract.Amount")) @@
         (GS_REJECT_LIST_URL :> GlobalOnce("RGBContract.RejectListUrl")),
     owned_types |->
         (OS_ASSET :> [kind |-> "fungible", default_transition |-> TS_TRANSFER]) @@
         (OS_INFLATION :> [kind |-> "fungible", default_transition |-> TS_TRANSFER]) @@
         (OS_REPLACE :> [kind |-> "declarative", default_transition |-> TS_TRANSFER]),
     genesis |->
         [metadata |-> {},
          globals |-> (GS_NOMINAL :> Once) @@ (GS_TERMS :> Once) @@
                      (GS_ISSUED_SUPPLY :> Once) @@ (GS_MAX_SUPPLY :> Once) @@
                      (GS_REJECT_LIST_URL :> NoneOrOnce),
          assignments |-> (OS_ASSET :> NoneOrMore) @@ (OS_INFLATION :> NoneOrMore) @@
                          (OS_REPLACE :> NoneOrMore),
          validator |-> LibSite(0, "ifa_lib_genesis")],
     transitions |->
         (TS_TRANSFER :>
             [metadata |-> {},
              globals |-> NoSlots,
              inputs |-> (OS_ASSET :> NoneOrMore) @@ (OS_INFLATION :> NoneOrMore) @@
                         (OS_REPLACE :> NoneOrMore),
              assignments |-> (OS_ASSET :> NoneOrMore) @@ (OS_INFLATION :> NoneOrMore) @@
                              (OS_REPLACE :> NoneOrMore),
              validator |-> LibSite(0, "ifa_lib_transfer")]) @@
         (TS_INFLATION :>
             [metadata |-> {MS_ALLOWED_INFLATION},
              globals |-> (GS_ISSUED_SUPPLY :> Once),
              inputs |-> (OS_INFLATION :> OnceOrMore),
              assignments |-> (OS_ASSET :> OnceOrMore) @@ (OS_INFLATION :> NoneOrMore),
              validator |-> LibSite(0, "ifa_lib_inflation")]) @@
         (TS_BURN :>
             [metadata |-> {},
              globals |-> NoSlots,
              inputs |-> (OS_ASSET :> NoneOrMore) @@ (OS_REPLACE :> NoneOrMore) @@
                         (OS_INFLATION :> NoneOrMore),
              assignments |-> NoSlots,
              validator |-> LibSite(0, "ifa_lib_transfer")]) @@
         (TS_REPLACE :>
             [metadata |-> {},
              globals |-> NoSlots,
              inputs |-> (OS_ASSET :> OnceOrMore) @@ (OS_REPLACE :> OnceOrMore),
              assignments |-> (OS_ASSET :> OnceOrMore) @@ (OS_REPLACE :> OnceOrMore),
              validator |-> LibSite(0, "ifa_lib_transfer")])]

ifa_schema ==
    [name |-> "InflatableFungibleAsset",
     meta_types |-> {MS_ALLOWED_INFLATION},
     global_types |->
         (GS_NOMINAL :> GlobalOnce("RGBContract.AssetSpec")) @@
         (GS_TERMS :> GlobalOnce("RGBContract.ContractTerms")) @@
         (GS_ISSUED_SUPPLY :> GlobalMany("RGBContract.Amount")) @@
         (GS_MAX_SUPPLY :> GlobalOnce("RGBContract.Amount")) @@
         (GS_REJECT_LIST_URL :> GlobalOnce("RGBContract.RejectListUrl")),
     owned_types |->
         (OS_ASSET :> [kind |-> "fungible", default_transition |-> TS_TRANSFER]) @@
         (OS_INFLATION :> [kind |-> "fungible", default_transition |-> TS_TRANSFER]) @@
         (OS_REPLACE :> [kind |-> "declarative", default_transition |-> TS_TRANSFER]),
     genesis |->
         [metadata |-> {},
          globals |-> (GS_NOMINAL :> Once) @@ (GS_TERMS :> Once) @@
                      (GS_ISSUED_SUPPLY :> Once) @@ (GS_MAX_SUPPLY :> Once) @@
                      (GS_REJECT_LIST_URL :> NoneOrOnce),
          assignments |-> (OS_ASSET :> NoneOrMore) @@ (OS_INFLATION :> NoneOrMore) @@
                          (OS_REPLACE :> NoneOrMore),
          validator |-> LibSite(0, "ifa_lib_genesis")],
     transitions |->
         (TS_TRANSFER :>
             [metadata |-> {},
              globals |-> NoSlots,
              inputs |-> (OS_ASSET :> NoneOrMore) @@ (OS_INFLATION :> NoneOrMore) @@
                         (OS_REPLACE :> NoneOrMore),
              assignments |-> (OS_ASSET :> NoneOrMore) @@ (OS_INFLATION :> NoneOrMore) @@
                              (OS_REPLACE :> NoneOrMore),
              validator |-> LibSite(0, "ifa_lib_transfer")]) @@
         (TS_INFLATION :>
             [metadata |-> {MS_ALLOWED_INFLATION},
              globals |-> (GS_ISSUED_SUPPLY :> Once),
              inputs |-> (OS_INFLATION :> OnceOrMore),
              assignments |-> (OS_ASSET :> OnceOrMore) @@ (OS_INFLATION :> NoneOrMore),
              validator |-> LibSite(0, "ifa_lib_inflation")]) @@
         (TS_BURN :>
             [metadata |-> {},
              globals |-> NoSlots,
              inputs |-> (OS_ASSET :> NoneOrMore) @@ (OS_REPLACE :> NoneOrMore) @@
                         (OS_INFLATION :> NoneOrMore),
              assignments |-> NoSlots,
              validator |-> NoValidator]) @@
         (TS_REPLACE :>
             [metadata |-> {},
              globals |-> NoSlots,
              inputs |-> (OS_ASSET :> OnceOrMore) @@ (OS_REPLACE :> OnceOrMore),
              assignments |-> (OS_ASSET :> OnceOrMore) @@ (OS_REPLACE :> OnceOrMore),
              validator |-> LibSite(0, "ifa_lib_transfer")])]

uda_schema ==
    [name |-> "UniqueDigitalAsset",
     meta_types |-> {},
     global_types |->
         (GS_NOMINAL :> GlobalOnce("RGBContract.AssetSpec")) @@
         (GS_TERMS :> GlobalOnce("RGBContract.ContractTerms")) @@
         (GS_TOKENS :> GlobalOnce("RGBContract.TokenData")) @@
         (GS_ATTACH :> GlobalOnce("RGBContract.AttachmentType")),
     owned_types |->
         (OS_ASSET :> [kind |-> "structured", default_transition |-> TS_TRANSFER]),
     genesis |->
         [metadata |-> {},
          globals |-> (GS_NOMINAL :> Once) @@ (GS_TERMS :> Once) @@
                      (GS_TOKENS :> Once) @@ (GS_ATTACH :> NoneOrOnce),
          assignments |-> (OS_ASSET :> Once),
          validator |-> LibSite(FN_GENESIS_OFFSET, "uda_lib")],
     transitions |->
         (TS_TRANSFER :>
             [metadata |-> {},
              globals |-> NoSlots,
              inputs |-> (OS_ASSET :> Once),
              assignments |-> (OS_ASSET :> Once),
              validator |-> LibSite(FN_TRANSFER_OFFSET, "uda_lib")])]

Schemas ==
    [NIA |-> nia_schema, CFA |-> cfa_schema, PFA |-> pfa_schema,
     IFA |-> ifa_schema, UDA |-> uda_schema]
SchemaNames == DOMAIN Schemas

(***************************************************************************)
(* scripts(): the libraries an issuer ships with its schema, by library id *)
(***************************************************************************)
NonInflatableAsset_scripts == [l \in {"nia_lib"} |-> Libs[l]]
CollectibleFungibleAsset_scripts == [l \in {"nia_lib"} |-> Libs[l]]

PermissionedFungibleAsset_scripts_genesis_only ==
    [l \in {"pfa_lib_genesis"} |-> Libs[l]]

PermissionedFungibleAsset_scripts ==
    [l \in {"pfa_lib_genesis", "pfa_lib_transition"} |-> Libs[l]]

InflatableFungibleAsset_scripts ==
    [l \in {"ifa_lib_genesis", "ifa_lib_transfer", "ifa_lib_inflation"} |-> Libs[l]]

UniqueDigitalAsset_scripts == [l \in {"uda_lib"} |-> Libs[l]]

scripts ==
    [NIA |-> NonInflatableAsset_scripts, CFA |-> CollectibleFungibleAsset_scripts,
     PFA |-> PermissionedFungibleAsset_scripts,
     IFA |-> InflatableFungibleAsset_scripts, UDA |-> UniqueDigitalAsset_scripts]

(***************************************************************************)
(* Proposed operations: what the host hands to a validator.                *)
(***************************************************************************)
Min(x, y) == IF x < y THEN x ELSE y

SeqsUpTo(S, n) == UNION {[1..k -> S] : k \in 0..n}

RECURSIVE SumSeq(_)
SumSeq(q) == IF q = << >> THEN 0 ELSE Head(q) + SumSeq(Tail(q))

\* All maps that pick, for every key of ch, one element of ch[key].
RECURSIVE MapsOf(_)
MapsOf(ch) ==
    IF DOMAIN ch = {} THEN {NoSlots}
    ELSE LET k == CHOOSE x \in DOMAIN ch : TRUE
             rest == [j \in DOMAIN ch \ {k} |-> ch[j]]
         IN  {(k :> v) @@ m : v \in ch[k], m \in MapsOf(rest)}

\* Fungible values of an allocation, values of the supply globals and of the
\* allowed-inflation metadata.
AmountValues == {1, 2, MaxU64}
SupplyValues == {0, 1, 2, 3, MaxU64 - 1, MaxU64}
Keys == 1..NumKeys
TokenDatas == [index : 0..MaxTokenIndex]
Allocations == [index : 0..MaxTokenIndex, fraction : 0..MaxFraction]
\* An optional signature: who signed, and whether over this transition.
Signatures == {None} \cup {Some([signer |-> k, over |-> o]) : k \in Keys, o \in {"this", "other"}}

GlobalValues(slot) ==
    CASE slot \in {GS_ISSUED_SUPPLY, GS_MAX_SUPPLY} -> SupplyValues
      [] slot = GS_TOKENS -> TokenDatas
      [] slot = GS_PUBKEY -> Keys
      [] OTHER -> {0}

\* Values of owned state by kind.  An input is an output of an accepted
\* operation: a structured input has the fraction the validator demanded.
StateValues(kind, side) ==
    CASE kind = "fungible" -> AmountValues
      [] kind = "declarative" -> {0}
      [] kind = "structured" ->
            IF side = "in" THEN {al \in Allocations : al.fraction = 1}
            ELSE Allocations

\* The value lists a slot may hold under an occurrence rule.  The values of one
\* slot are listed in non-decreasing order: the programs sum or count the
\* fungible and declarative slots, and index only slots of one element.
OccLists(values, occ) ==
    {l \in SeqsUpTo(values, Min(occ.max, MaxAssign)) :
        /\ Len(l) >= occ.min
        /\ \A k \in 1..(Len(l) - 1) : l[k] <= l[k + 1]}

GlobalMaps(decl) ==
    MapsOf([k \in GlobalSlots |-> OccLists(GlobalValues(k), OccOf(decl, k))])

MetaMaps(required) ==
    MapsOf([k \in MetaSlots |->
              IF k \in required THEN {<< v >> : v \in SupplyValues} ELSE {<< >>}])

TotalLen(f) == Len(f[OS_ASSET]) + Len(f[OS_INFLATION]) + Len(f[OS_REPLACE])

AssignMaps(sc, decl, side) ==
    LET kindOf(ty) == IF ty \in DOMAIN Schemas[sc].owned_types
                      THEN Schemas[sc].owned_types[ty].kind ELSE "declarative"
        all == MapsOf([ty \in OwnedSlots |->
                         OccLists(StateValues(kindOf(ty), side), OccOf(decl, ty))])
    IN  {f \in all :
           /\ TotalLen(f) <= MaxAssign
           /\ side = "in" =>
                \A ty \in OwnedSlots :
                    kindOf(ty) = "fungible" => SumSeq(f[ty]) <= MaxU64}

NoAssignments == [ty \in OwnedSlots |-> << >>]

GenesisOps(sc) ==
    LET g == Schemas[sc].genesis
    IN  {[kind |-> "genesis", ttype |-> 0, globals |-> gl, metadata |-> md,
          inputs |-> NoAssignments, outputs |-> out, signature |-> None] :
            gl \in GlobalMaps(g.globals), md \in MetaMaps(g.metadata),
            out \in AssignMaps(sc, g.assignments, "out")}

TransitionOps(sc, tt) ==
    LET t == Schemas[sc].transitions[tt]
    IN  {[kind |-> "transition", ttype |-> tt, globals |-> gl, metadata |-> md,
          inputs |-> inp, outputs |-> out, signature |-> sig] :
            gl \in GlobalMaps(t.globals), md \in MetaMaps(t.metadata),
            inp \in AssignMaps(sc, t.inputs, "in"),
            out \in AssignMaps(sc, t.assignments, "out"),
            sig \in IF sc = "PFA" THEN Signatures ELSE {None}}

\* The operations a contract of a schema accepts for validation.
IsOperation(sc, o) ==
    \/ o \in GenesisOps(sc)
    \/ \E tt \in DOMAIN Schemas[sc].transitions : o \in TransitionOps(sc, tt)

\* The contract's global state a transition can read with ldc: the published
\* key of a permissioned asset (the program guards against its absence).
ContractGlobals(sc, o) ==
    IF sc = "PFA" /\ o.kind = "transition"
    THEN {[k \in {GS_PUBKEY} |-> l] : l \in {<< >>} \cup {<< key >> : key \in Keys}}
    ELSE {[k \in {GS_PUBKEY} |-> << >>]}

(***************************************************************************)
(* State.                                                                  *)
(***************************************************************************)
VARIABLES
    schema,     \* the archetype of the contract
    contract,   \* the contract's global state visible to ldc
    op,         \* the proposed genesis or transition
    vm,         \* the register machine: pc, registers, st0, status, errno
    first,      \* the verdict of an earlier validation of the same proposed state
    ledger,     \* the contract as the stock holds it: globals and unspent state
    wrapper     \* a typed wrapper over contract data and the last accessor call

vars == << schema, contract, op, vm, first, ledger, wrapper >>

ARegs == {"a8[0]", "a8[1]", "a16[0]", "a16[1]", "a16[2]",
          "a32[0]", "a32[1]", "a64[0]", "a64[1]"}
SRegs == {"s16[0]", "s16[1]"}

\* Bytes of an integer register, by bank.
RegBytes(r) ==
    CASE r \in {"a8[0]", "a8[1]"} -> 1
      [] r \in {"a16[0]", "a16[1]", "a16[2]"} -> 2
      [] r \in {"a32[0]", "a32[1]"} -> 4
      [] r \in {"a64[0]", "a64[1]"} -> 8

\* The validator entry point of the proposed operation.
ValidatorOf(sc, o) ==
    IF o.kind = "genesis" THEN Schemas[sc].genesis.validator
    ELSE Schemas[sc].transitions[o.ttype].validator

Validator == ValidatorOf(schema, op)
HasValidator == Validator /= NoValidator
Code == Libs[Validator.lib]

\* Registers are unset at program entry.
EntryVm(site) ==
    [pc |-> site.pos,
     a |-> [r \in ARegs |-> None],
     s |-> [r \in SRegs |-> None],
     st0 |-> TRUE,
     status |-> "running",
     errno |-> None]

\* No wrapper is built and no accessor called.
NoWrapper ==
    [data |-> None, kind |-> "none", built |-> None, call |-> "none", result |-> None]

\* A stock that holds no contract yet.
EmptyLedger ==
    [issued |-> FALSE,
     globals |-> [k \in GlobalSlots |-> << >>],
     unspent |-> NoAssignments,
     nops |-> 0]

Init ==
    /\ schema \in SchemaNames
    /\ IsOperation(schema, op)
    /\ contract \in ContractGlobals(schema, op)
    /\ vm = EntryVm(ValidatorOf(schema, op))
    /\ first = None
    /\ ledger = EmptyLedger
    /\ wrapper = NoWrapper

(***************************************************************************)
(* The register machine.                                                   *)
(***************************************************************************)
\* For every library, the index of the instruction assembled at each byte
\* offset (0 where no instruction starts).
InstrIndex ==
    [l \in DOMAIN Libs |->
        [pc \in 0..CodeSize(Libs[l]) |->
            IF \E k \in 1..Len(Libs[l]) : OffsetOf(Libs[l], k) = pc
            THEN CHOOSE k \in 1..Len(Libs[l]) : OffsetOf(Libs[l], k) = pc
            ELSE 0]]

AtInstr ==
    /\ vm.status = "running"
    /\ HasValidator
    /\ vm.pc \in DOMAIN InstrIndex[Validator.lib]
    /\ InstrIndex[Validator.lib][vm.pc] > 0
Cur == Code[InstrIndex[Validator.lib][vm.pc]]
AtEnd == vm.status = "running" /\ HasValidator /\ vm.pc = CodeSize(Code)

Advance(v, i) == [v EXCEPT !.pc = v.pc + InstrSize(i)]

\* Validation aborts: the host reports the code held by a8[0].
Abort(v) == [v EXCEPT !.status = "reject", !.st0 = FALSE, !.errno = v.a["a8[0]"]]

Accept(v) == [v EXCEPT !.status = "accept"]

\* Checked sum of fungible values: None on overflow.
CheckedSum(q) == IF SumSeq(q) <= MaxU64 THEN Some(SumSeq(q)) ELSE None

EncodeGlobal(slot, value) ==
    CASE slot \in {GS_ISSUED_SUPPLY, GS_MAX_SUPPLY} -> EncodeAmount(value)
      [] slot = GS_TOKENS -> EncodeTokenData(value)
      [] OTHER -> << value >>

KindOf(sc, ty) ==
    IF ty \in DOMAIN Schemas[sc].owned_types
    THEN Schemas[sc].owned_types[ty].kind ELSE "none"

\* A signature verifies under a key when that key's owner made it over this
\* very transition.
Verifies(keyBytes, sig) ==
    /\ IsSome(sig)
    /\ Val(sig).over = "this"
    /\ keyBytes = EncodeGlobal(GS_PUBKEY, Val(sig).signer)

ExecPutOn(v, i) == [Advance(v, i) EXCEPT !.a[i.dst] = Some(i.imm)]

\* Load the idx-th value of a sequence of encoded values, or abort.
LoadOn(v, i, idx, encoded) ==
    IF IsSome(idx) /\ Val(idx) < Len(encoded)
    THEN [Advance(v, i) EXCEPT !.s[i.dst] = Some(encoded[Val(idx) + 1])]
    ELSE Abort(v)

ExecLdgOn(v, i, o) ==
    LoadOn(v, i, v.a[i.idx],
           [k \in 1..Len(o.globals[i.slot]) |-> EncodeGlobal(i.slot, o.globals[i.slot][k])])

ExecLdcOn(v, i, c) ==
    LoadOn(v, i, v.a[i.idx],
           IF i.slot \in DOMAIN c
           THEN [k \in 1..Len(c[i.slot]) |-> EncodeGlobal(i.slot, c[i.slot][k])]
           ELSE << >>)

ExecLdmOn(v, i, o) ==
    LoadOn(v, i, Some(0),
           [k \in 1..Len(o.metadata[i.slot]) |-> EncodeAmount(o.metadata[i.slot][k])])

\* ldp / lds read structured state only.
ExecLdOwnedOn(v, i, sc, states) ==
    LoadOn(v, i, v.a[i.idx],
           IF KindOf(sc, i.ty) = "structured"
           THEN [k \in 1..Len(states) |-> EncodeAllocation(states[k])]
           ELSE << >>)

ExecExtrOn(v, i) ==
    LET src == v.s[i.src]
        off == v.a[i.off]
        n == RegBytes(i.dst)
    IN  IF IsSome(src) /\ IsSome(off) /\ Val(off) + n <= Len(Val(src))
        THEN [Advance(v, i) EXCEPT
                !.a[i.dst] = Some(DecodeLE(SubSeq(Val(src), Val(off) + 1, Val(off) + n)))]
        ELSE [Advance(v, i) EXCEPT !.a[i.dst] = None, !.st0 = FALSE]

ExecSvsOn(v, i, o) ==
    LET ins == CheckedSum(o.inputs[i.ty])
        outs == CheckedSum(o.outputs[i.ty])
    IN  [Advance(v, i) EXCEPT !.st0 = IsSome(ins) /\ IsSome(outs) /\ ins = outs]

\* sas / sps: the sum of a side against a64[0].
ExecSumOn(v, i, states) ==
    LET sum == CheckedSum(states)
    IN  [Advance(v, i) EXCEPT
            !.st0 = IsSome(sum) /\ IsSome(v.a["a64[0]"]) /\ sum = v.a["a64[0]"]]

ExecCountOn(v, i, states) == [Advance(v, i) EXCEPT !.a[i.dst] = Some(Len(states))]

ExecEqNOn(v, i) ==
    [Advance(v, i) EXCEPT
        !.st0 = IsSome(v.a[i.r1]) /\ IsSome(v.a[i.r2]) /\ v.a[i.r1] = v.a[i.r2]]

ExecLtUOn(v, i) ==
    [Advance(v, i) EXCEPT
        !.st0 = IsSome(v.a[i.r1]) /\ IsSome(v.a[i.r2])
                /\ Val(v.a[i.r1]) < Val(v.a[i.r2])]

ExecInvOn(v, i) == [Advance(v, i) EXCEPT !.st0 = ~v.st0]

\* add.uc r1,r2: checked r1 + r2 into r2.
ExecAddUcOn(v, i) ==
    LET x == v.a[i.r1]
        y == v.a[i.r2]
        ok == IsSome(x) /\ IsSome(y) /\ Val(x) + Val(y) <= MaxU64
    IN  [Advance(v, i) EXCEPT
            !.a[i.r2] = IF ok THEN Some(Val(x) + Val(y)) ELSE None,
            !.st0 = ok]

\* sub.uc r1,r2: checked r1 - r2 into r2.
ExecSubUcOn(v, i) ==
    LET x == v.a[i.r1]
        y == v.a[i.r2]
        ok == IsSome(x) /\ IsSome(y) /\ Val(x) >= Val(y)
    IN  [Advance(v, i) EXCEPT
            !.a[i.r2] = IF ok THEN Some(Val(x) - Val(y)) ELSE None,
            !.st0 = ok]

ExecCpyOn(v, i) == [Advance(v, i) EXCEPT !.a[i.r2] = v.a[i.r1]]

ExecVtsOn(v, i, o) ==
    [Advance(v, i) EXCEPT
        !.st0 = IsSome(v.s[i.src]) /\ Verifies(Val(v.s[i.src]), o.signature)]

ExecJmpOn(v, i) == [v EXCEPT !.pc = i.off]

ExecJifOn(v, i) == IF v.st0 THEN [v EXCEPT !.pc = i.off] ELSE Advance(v, i)

ExecTestOn(v, i) == IF v.st0 THEN Advance(v, i) ELSE Abort(v)

ExecRetOn(v, i) == Accept(v)

(***************************************************************************)
(* One action per instruction.                                             *)
(***************************************************************************)
Frame == UNCHANGED << schema, contract, op, first, ledger, wrapper >>

ExecPut == AtInstr /\ Cur.op = "put" /\ vm' = ExecPutOn(vm, Cur) /\ Frame
ExecLdg == AtInstr /\ Cur.op = "ldg" /\ vm' = ExecLdgOn(vm, Cur, op) /\ Frame
ExecLdc == AtInstr /\ Cur.op = "ldc" /\ vm' = ExecLdcOn(vm, Cur, contract) /\ Frame
ExecLdm == AtInstr /\ Cur.op = "ldm" /\ vm' = ExecLdmOn(vm, Cur, op) /\ Frame
ExecLdp ==
    AtInstr /\ Cur.op = "ldp"
    /\ vm' = ExecLdOwnedOn(vm, Cur, schema, op.inputs[Cur.ty]) /\ Frame
ExecLds ==
    AtInstr /\ Cur.op = "lds"
    /\ vm' = ExecLdOwnedOn(vm, Cur, schema, op.outputs[Cur.ty]) /\ Frame
ExecExtr == AtInstr /\ Cur.op = "extr" /\ vm' = ExecExtrOn(vm, Cur) /\ Frame
ExecSvs == AtInstr /\ Cur.op = "svs" /\ vm' = ExecSvsOn(vm, Cur, op) /\ Frame
ExecSas ==
    AtInstr /\ Cur.op = "sas" /\ vm' = ExecSumOn(vm, Cur, op.outputs[Cur.ty]) /\ Frame
ExecSps ==
    AtInstr /\ Cur.op = "sps" /\ vm' = ExecSumOn(vm, Cur, op.inputs[Cur.ty]) /\ Frame
ExecCnp ==
    AtInstr /\ Cur.op = "cnp" /\ vm' = ExecCountOn(vm, Cur, op.inputs[Cur.ty]) /\ Frame
ExecCns ==
    AtInstr /\ Cur.op = "cns" /\ vm' = ExecCountOn(vm, Cur, op.outputs[Cur.ty]) /\ Frame
ExecEqN == AtInstr /\ Cur.op = "eq.n" /\ vm' = ExecEqNOn(vm, Cur) /\ Frame
ExecLtU == AtInstr /\ Cur.op = "lt.u" /\ vm' = ExecLtUOn(vm, Cur) /\ Frame
ExecInv == AtInstr /\ Cur.op = "inv" /\ vm' = ExecInvOn(vm, Cur) /\ Frame
ExecAddUc == AtInstr /\ Cur.op = "add.uc" /\ vm' = ExecAddUcOn(vm, Cur) /\ Frame
ExecSubUc == AtInstr /\ Cur.op = "sub.uc" /\ vm' = ExecSubUcOn(vm, Cur) /\ Frame
ExecCpy == AtInstr /\ Cur.op = "cpy" /\ vm' = ExecCpyOn(vm, Cur) /\ Frame
ExecVts == AtInstr /\ Cur.op = "vts" /\ vm' = ExecVtsOn(vm, Cur, op) /\ Frame
ExecJmp == AtInstr /\ Cur.op = "jmp" /\ vm' = ExecJmpOn(vm, Cur) /\ Frame
ExecJif == AtInstr /\ Cur.op = "jif" /\ vm' = ExecJifOn(vm, Cur) /\ Frame
ExecTest == AtInstr /\ Cur.op = "test" /\ vm' = ExecTestOn(vm, Cur) /\ Frame
ExecRet == AtInstr /\ Cur.op = "ret" /\ vm' = ExecRetOn(vm, Cur) /\ Frame

\* Execution that runs past the last instruction ends in success.
FallOffEnd == AtEnd /\ vm' = Accept(vm) /\ Frame

\* A transition without a validator is valid once it conforms to the schema.
NoScript == vm.status = "running" /\ ~HasValidator /\ vm' = Accept(vm) /\ Frame

Next ==
    \/ ExecPut \/ ExecLdg \/ ExecLdc \/ ExecLdm \/ ExecLdp \/ ExecLds
    \/ ExecExtr \/ ExecSvs \/ ExecSas \/ ExecSps \/ ExecCnp \/ ExecCns
    \/ ExecEqN \/ ExecLtU \/ ExecInv \/ ExecAddUc \/ ExecSubUc \/ ExecCpy
    \/ ExecVts \/ ExecJmp \/ ExecJif \/ ExecTest \/ ExecRet
    \/ FallOffEnd \/ NoScript

Spec == Init /\ [][Next]_vars

\* The interpreter runs a validation to its end: a step that can be taken is
\* taken.
FairSpec == Spec /\ WF_vars(Next)

(***************************************************************************)
(* Vocabulary of the properties.                                           *)
(***************************************************************************)
Done == vm.status \in {"accept", "reject"}
Accepted == vm.status = "accept"
Rejected(code) == vm.status = "reject" /\ vm.errno = Some(code)

IsGenesis == op.kind = "genesis"
IsTransition(tt) == op.kind = "transition" /\ op.ttype = tt

\* Unbounded sums and counts of the proposed operation.
InSum(ty) == SumSeq(op.inputs[ty])
OutSum(ty) == SumSeq(op.outputs[ty])
InCount(ty) == Len(op.inputs[ty])
OutCount(ty) == Len(op.outputs[ty])
DeclaredIssued == op.globals[GS_ISSUED_SUPPLY][1]
DeclaredMax == op.globals[GS_MAX_SUPPLY][1]
AllowedInflation == op.metadata[MS_ALLOWED_INFLATION][1]

(***************************************************************************)
(* A second validation of the same proposed state.  The host may hand the  *)
(* assignments of a slot over in another order, and the machine may or may *)
(* not have been reset since the first validation.                         *)
(***************************************************************************)
Reversed(q) == [k \in 1..Len(q) |-> q[Len(q) + 1 - k]]
Enumerations(f) == {f, [ty \in DOMAIN f |-> Reversed(f[ty])]}

\* The machine at an entry point with the registers an earlier run left.
ReentryVm(site, left) ==
    [EntryVm(site) EXCEPT !.a = left.a, !.s = left.s, !.st0 = left.st0]

Revalidate ==
    /\ Done /\ first = None
    /\ first' = Some([status |-> vm.status, errno |-> vm.errno])
    /\ \E ins \in Enumerations(op.inputs), outs \in Enumerations(op.outputs) :
          op' = [op EXCEPT !.inputs = ins, !.outputs = outs]
    /\ vm' \in {EntryVm(Validator), ReentryVm(Validator, vm)}
    /\ UNCHANGED << schema, contract, ledger, wrapper >>

NextDet == Next \/ Revalidate

SpecDet == Init /\ [][NextDet]_vars

(***************************************************************************)
(* The contract in the stock: a genesis and the transitions accepted after *)
(* it.  The stock proposes an operation, the validator runs, an accepted   *)
(* operation is applied and a rejected one is dropped.                     *)
(***************************************************************************)
\* Bounds of the histories explored.
MaxOps == 3
MaxUnspent == 3

\* Allocations are told apart by their state only; a slot's unspent state is
\* kept as a sorted list.
Count(q, x) == Cardinality({k \in DOMAIN q : q[k] = x})
IsSubBag(p, q) == \A k \in DOMAIN p : Count(p, p[k]) <= Count(q, p[k])

RECURSIVE RemoveOne(_, _)
RemoveOne(q, x) ==
    IF q = << >> THEN << >>
    ELSE IF Head(q) = x THEN Tail(q) ELSE << Head(q) >> \o RemoveOne(Tail(q), x)

RECURSIVE Spend(_, _)
Spend(q, ins) == IF ins = << >> THEN q ELSE Spend(RemoveOne(q, Head(ins)), Tail(ins))

RECURSIVE InsertSorted(_, _)
InsertSorted(q, x) ==
    IF q = << >> THEN << x >>
    ELSE IF x <= Head(q) THEN << x >> \o q
    ELSE << Head(q) >> \o InsertSorted(Tail(q), x)

RECURSIVE Assign(_, _)
Assign(q, outs) ==
    IF outs = << >> THEN q ELSE Assign(InsertSorted(q, Head(outs)), Tail(outs))

NoOp ==
    [kind |-> "none", ttype |-> 0, globals |-> [k \in GlobalSlots |-> << >>],
     metadata |-> [k \in MetaSlots |-> << >>],
     inputs |-> NoAssignments, outputs |-> NoAssignments, signature |-> None]

IdleVm == [EntryVm(NoValidator) EXCEPT !.status = "idle"]
Idle == vm.status = "idle"

\* The ledger once an accepted operation is applied to it.
Applied(l, o) ==
    [issued |-> TRUE,
     globals |-> [k \in GlobalSlots |-> l.globals[k] \o o.globals[k]],
     unspent |-> [ty \in OwnedSlots |->
                    Assign(Spend(l.unspent[ty], o.inputs[ty]), o.outputs[ty])],
     nops |-> l.nops + 1]

Fits(l, o) == TotalLen(Applied(l, o).unspent) <= MaxUnspent

\* The archetypes whose supply is fixed at genesis; their programs use only
\* part of the instruction set.
FixedSupplySchemas == {"NIA", "CFA", "PFA", "UDA"}

InitLedger ==
    /\ schema \in FixedSupplySchemas
    /\ contract = [k \in {GS_PUBKEY} |-> << >>]
    /\ op = NoOp
    /\ vm = IdleVm
    /\ first = None
    /\ ledger = EmptyLedger
    /\ wrapper = NoWrapper

ProposeGenesis ==
    /\ Idle /\ ~ledger.issued
    /\ \E o \in GenesisOps(schema) :
          /\ op' = o
          /\ vm' = EntryVm(ValidatorOf(schema, o))
    /\ UNCHANGED << schema, contract, first, ledger, wrapper >>

\* A transition spends state the contract holds unspent.
ProposeTransition ==
    /\ Idle /\ ledger.issued /\ ledger.nops < MaxOps
    /\ \E tt \in DOMAIN Schemas[schema].transitions :
       \E o \in TransitionOps(schema, tt) :
          /\ \A ty \in OwnedSlots : IsSubBag(o.inputs[ty], ledger.unspent[ty])
          /\ Fits(ledger, o)
          /\ op' = o
          /\ vm' = EntryVm(ValidatorOf(schema, o))
    /\ contract' = [k \in {GS_PUBKEY} |-> ledger.globals[GS_PUBKEY]]
    /\ UNCHANGED << schema, first, ledger, wrapper >>

Apply ==
    /\ Accepted /\ op.kind /= "none"
    /\ ledger' = Applied(ledger, op)
    /\ op' = NoOp
    /\ vm' = IdleVm
    /\ UNCHANGED << schema, contract, first, wrapper >>

Discard ==
    /\ vm.status = "reject"
    /\ op' = NoOp
    /\ vm' = IdleVm
    /\ UNCHANGED << schema, contract, first, ledger, wrapper >>

NextLedger ==
    \/ ProposeGenesis \/ ProposeTransition \/ Apply \/ Discard
    \/ ExecPut \/ ExecLdg \/ ExecLdc \/ ExecLdp \/ ExecLds \/ ExecExtr
    \/ ExecSvs \/ ExecSas \/ ExecEqN \/ ExecVts \/ ExecJmp \/ ExecTest
    \/ ExecRet \/ FallOffEnd

SpecLedger == InitLedger /\ [][NextLedger]_vars

\* The query layer (NiaWrapper, CfaWrapper, PfaWrapper).
total_issued_supply == SumSeq(ledger.globals[GS_ISSUED_SUPPLY])
allocations == ledger.unspent[OS_ASSET]

(***************************************************************************)
(* The history of an inflatable asset: genesis, then transfers, inflations,*)
(* replacements and burns, each validated before it is applied.            *)
(***************************************************************************)
\* Largest amount, supply or allowance of the operations proposed here.
MaxLedgerValue == 3

SmallSeq(q) == \A k \in DOMAIN q : q[k] <= MaxLedgerValue
\* The operation moves small amounts only and leaves the reject list out.
Small(o) ==
    /\ \A ty \in {OS_ASSET, OS_INFLATION} : SmallSeq(o.inputs[ty]) /\ SmallSeq(o.outputs[ty])
    /\ \A k \in {GS_ISSUED_SUPPLY, GS_MAX_SUPPLY} : SmallSeq(o.globals[k])
    /\ SmallSeq(o.metadata[MS_ALLOWED_INFLATION])
    /\ o.globals[GS_REJECT_LIST_URL] = << >>

InitIfaLedger ==
    /\ schema = "IFA"
    /\ contract = [k \in {GS_PUBKEY} |-> << >>]
    /\ op = NoOp
    /\ vm = IdleVm
    /\ first = None
    /\ ledger = EmptyLedger
    /\ wrapper = NoWrapper

ProposeIfaGenesis ==
    /\ Idle /\ ~ledger.issued
    /\ \E o \in GenesisOps(schema) :
          /\ Small(o)
          /\ Fits(ledger, o)
          /\ op' = o
          /\ vm' = EntryVm(ValidatorOf(schema, o))
    /\ UNCHANGED << schema, contract, first, ledger, wrapper >>

ProposeIfaTransition ==
    /\ Idle /\ ledger.issued /\ ledger.nops < MaxOps
    /\ \E tt \in DOMAIN Schemas[schema].transitions :
       \E o \in TransitionOps(schema, tt) :
          /\ Small(o)
          /\ \A ty \in OwnedSlots : IsSubBag(o.inputs[ty], ledger.unspent[ty])
          /\ Fits(ledger, o)
          /\ op' = o
          /\ vm' = EntryVm(ValidatorOf(schema, o))
    /\ UNCHANGED << schema, contract, first, ledger, wrapper >>

NextIfaLedger ==
    \/ ProposeIfaGenesis \/ ProposeIfaTransition \/ Apply \/ Discard
    \/ ExecPut \/ ExecLdg \/ ExecLdm \/ ExecExtr \/ ExecSvs \/ ExecSas
    \/ ExecSps \/ ExecCnp \/ ExecCns \/ ExecEqN \/ ExecLtU \/ ExecInv
    \/ ExecAddUc \/ ExecSubUc \/ ExecCpy \/ ExecJif \/ ExecTest \/ ExecRet
    \/ NoScript

SpecIfaLedger == InitIfaLedger /\ [][NextIfaLedger]_vars

\* The histories of all five archetypes.
ProposeFixedGenesis == schema \in FixedSupplySchemas /\ ProposeGenesis
ProposeFixedTransition == schema \in FixedSupplySchemas /\ ProposeTransition
ProposeInflatableGenesis == schema = "IFA" /\ ProposeIfaGenesis
ProposeInflatableTransition == schema = "IFA" /\ ProposeIfaTransition

NextHistories ==
    \/ ProposeFixedGenesis \/ ProposeFixedTransition
    \/ ProposeInflatableGenesis \/ ProposeInflatableTransition
    \/ Apply \/ Discard
    \/ ExecPut \/ ExecLdg \/ ExecLdc \/ ExecLdm \/ ExecLdp \/ ExecLds
    \/ ExecExtr \/ ExecSvs \/ ExecSas \/ ExecSps \/ ExecCnp \/ ExecCns
    \/ ExecEqN \/ ExecLtU \/ ExecInv \/ ExecAddUc \/ ExecSubUc \/ ExecCpy
    \/ ExecVts \/ ExecJmp \/ ExecJif \/ ExecTest \/ ExecRet
    \/ FallOffEnd \/ NoScript

SpecHistories == (InitLedger \/ InitIfaLedger) /\ [][NextHistories]_vars

(***************************************************************************)
(* The typed wrappers over contract data: construction and accessors.      *)
(***************************************************************************)
\* Entries kept in one global slot of the contract data explored.
MaxEntries == 2

NIA_SCHEMA_ID ==
    << 69, 104, 112, 81, 244, 204, 166, 227, 246, 101, 252, 117, 254, 62, 39, 179,
       0, 128, 52, 103, 137, 173, 131, 170, 13, 194, 158, 149, 163, 21, 227, 53 >>
CFA_SCHEMA_ID ==
    << 38, 10, 138, 230, 18, 87, 245, 128, 83, 226, 139, 2, 87, 181, 92, 91,
       232, 139, 77, 192, 57, 114, 197, 2, 156, 188, 239, 104, 164, 211, 172, 214 >>
PFA_SCHEMA_ID ==
    << 155, 102, 5, 77, 3, 207, 160, 251, 107, 128, 60, 234, 18, 215, 253, 167,
       15, 193, 146, 248, 162, 107, 110, 134, 194, 103, 117, 70, 63, 25, 87, 246 >>
IFA_SCHEMA_ID ==
    << 130, 101, 127, 137, 8, 47, 6, 39, 100, 220, 4, 124, 187, 255, 173, 148,
       42, 130, 48, 192, 65, 188, 163, 22, 67, 5, 186, 36, 197, 149, 180, 96 >>
UDA_SCHEMA_ID ==
    << 255, 170, 227, 202, 103, 247, 25, 49, 60, 227, 73, 91, 228, 154, 23, 155,
       102, 133, 192, 79, 30, 88, 41, 55, 152, 40, 206, 127, 233, 148, 206, 209 >>

\* The field name each schema gives a global slot.
GlobalNames ==
    (GS_NOMINAL :> "spec") @@ (GS_TERMS :> "terms") @@
    (GS_ISSUED_SUPPLY :> "issuedSupply") @@ (GS_MAX_SUPPLY :> "maxSupply") @@
    (GS_REJECT_LIST_URL :> "rejectListUrl") @@ (GS_ART :> "art") @@
    (GS_NAME :> "name") @@ (GS_DETAILS :> "details") @@
    (GS_PRECISION :> "precision") @@ (GS_PUBKEY :> "pubkey") @@
    (GS_TOKENS :> "tokens") @@ (GS_ATTACH :> "attachmentTypes")

\* What a call leaves: a value, or a panic with its message.
Returned(v) == [tag |-> "returned", value |-> v]
Panic(msg) == [tag |-> "panic", msg |-> msg]

\* Iterator over the entries of the global state of the given field name.
global(data, fname) ==
    data.globals[CHOOSE k \in DOMAIN data.globals : GlobalNames[k] = fname]
next(it) == IF it = << >> THEN None ELSE Some(Head(it))
expect(o, msg) == IF IsSome(o) THEN Returned(Val(o)) ELSE Panic(msg)
\* A strict value read as a value of the given type.
from_strict_val_unchecked(ty, sv) == [type |-> ty, value |-> sv]
\* Amounts of a list of entries, summed.
sum(it) == from_strict_val_unchecked("Amount", SumSeq(it))

NiaWrapper_with(data) ==
    IF data.schema_id /= NIA_SCHEMA_ID THEN Panic("the provided schema is not NIA")
    ELSE Returned([kind |-> "NiaWrapper", data |-> data])

CfaWrapper_with(data) ==
    IF data.schema_id /= CFA_SCHEMA_ID THEN Panic("the provided schema is not CFA")
    ELSE Returned([kind |-> "CfaWrapper", data |-> data])

PfaWrapper_with(data) ==
    IF data.schema_id /= PFA_SCHEMA_ID THEN Panic("the provided schema is not PFA")
    ELSE Returned([kind |-> "PfaWrapper", data |-> data])

IfaWrapper_with_unchecked(data) == Returned([kind |-> "IfaWrapper", data |-> data])

IfaWrapper_with(data) ==
    IF data.schema_id /= IFA_SCHEMA_ID THEN Panic("the provided schema is not IFA")
    ELSE Returned([kind |-> "IfaWrapper", data |-> data])

UdaWrapper_with(data) ==
    IF data.schema_id /= UDA_SCHEMA_ID THEN Panic("the provided schema is not UDA")
    ELSE Returned([kind |-> "UdaWrapper", data |-> data])

WrapperKinds == {"NiaWrapper", "CfaWrapper", "PfaWrapper", "IfaWrapper", "UdaWrapper"}

with(kind, data) ==
    CASE kind = "NiaWrapper" -> NiaWrapper_with(data)
      [] kind = "CfaWrapper" -> CfaWrapper_with(data)
      [] kind = "PfaWrapper" -> PfaWrapper_with(data)
      [] kind = "IfaWrapper" -> IfaWrapper_with(data)
      [] kind = "UdaWrapper" -> UdaWrapper_with(data)

\* The accessors.  The first entry of a slot read as its type, or the panic
\* of an expect on an empty slot.
Typed(ty, res) ==
    IF res.tag = "returned"
    THEN Returned(from_strict_val_unchecked(ty, res.value)) ELSE res

spec(data) ==
    Typed("AssetSpec", expect(next(global(data, "spec")),
        "requires global state spec to have at least one item"))

contract_terms(data) ==
    Typed("ContractTerms", expect(next(global(data, "terms")),
        "requires global state terms to have at least one item"))

name(data) ==
    Typed("Name", expect(next(global(data, "name")),
        "CFA requires global state name to have at least one item"))

details_expected(data) ==
    Typed("Details", expect(next(global(data, "details")),
        "CFA requires global state details to have at least one item"))

details(data) ==
    LET o == next(global(data, "details"))
    IN  Returned(IF IsSome(o)
                 THEN Some(from_strict_val_unchecked("Details", Val(o))) ELSE None)

precision(data) ==
    Typed("Precision", expect(next(global(data, "precision")),
        "CFA requires global state precision to have at least one item"))

token_data(data) ==
    Typed("TokenData", expect(next(global(data, "tokens")),
        "UDA requires global state tokens to have at least one item"))

reject_list_url(data) ==
    LET o == next(global(data, "rejectListUrl"))
    IN  Returned(IF IsSome(o)
                 THEN Some(from_strict_val_unchecked("RejectListUrl", Val(o))) ELSE None)

issued_supply(data) == global(data, "issuedSupply")
wrapper_total_issued_supply(data) == Returned(sum(issued_supply(data)))
max_supply(data) == Returned(sum(global(data, "maxSupply")))

\* The accessors each wrapper offers over global state.
Accessors ==
    [NiaWrapper |-> {"spec", "contract_terms", "total_issued_supply"},
     CfaWrapper |-> {"name", "details", "precision", "total_issued_supply",
                     "contract_terms"},
     PfaWrapper |-> {"spec", "contract_terms", "total_issued_supply"},
     IfaWrapper |-> {"spec", "contract_terms", "reject_list_url",
                     "total_issued_supply", "max_supply"},
     UdaWrapper |-> {"spec", "contract_terms", "token_data"}]

Call(acc, data) ==
    CASE acc = "spec" -> spec(data)
      [] acc = "contract_terms" -> contract_terms(data)
      [] acc = "name" -> name(data)
      [] acc = "details" -> details(data)
      [] acc = "precision" -> precision(data)
      [] acc = "token_data" -> token_data(data)
      [] acc = "reject_list_url" -> reject_list_url(data)
      [] acc = "total_issued_supply" -> wrapper_total_issued_supply(data)
      [] acc = "max_supply" -> max_supply(data)

\* Contract data handed to a wrapper.  An id is the commitment to a schema:
\* data of an archetype carries its id and the global slots of its schema;
\* data of any other schema carries another id.
SchemaIdOf ==
    [NIA |-> NIA_SCHEMA_ID, CFA |-> CFA_SCHEMA_ID, PFA |-> PFA_SCHEMA_ID,
     IFA |-> IFA_SCHEMA_ID, UDA |-> UDA_SCHEMA_ID]
OtherSchemaIds ==
    {[k \in 1..32 |-> 0], [NIA_SCHEMA_ID EXCEPT ![32] = 54],
     [IFA_SCHEMA_ID EXCEPT ![1] = 131]}

\* Entries of a slot: opaque strict values, the first told from the rest.
StrictLists == {[k \in 1..n |-> n + 1 - k] : n \in 0..MaxEntries}
\* Entries of a supply slot.  Amounts are summed by the RGB library; the
\* lists are those whose sum is a 64-bit amount.
AmountLists == {q \in SeqsUpTo({0, 1, MaxU64 - 1}, MaxEntries) : SumSeq(q) <= MaxU64}

EntryLists(slot) ==
    CASE slot \in {GS_ISSUED_SUPPLY, GS_MAX_SUPPLY} -> AmountLists
      [] slot \in {GS_ART, GS_ATTACH, GS_PUBKEY} -> {<< >>}
      [] OTHER -> StrictLists

ContractDatas(sc) ==
    {[schema_id |-> SchemaIdOf[sc], globals |-> g] :
        g \in MapsOf([k \in DOMAIN Schemas[sc].global_types |-> EntryLists(k)])}

ForeignDatas ==
    {[schema_id |-> id, globals |-> [k \in DOMAIN nia_schema.global_types |-> << 1 >>]] :
        id \in OtherSchemaIds}

InitWrapper ==
    /\ schema \in SchemaNames
    /\ contract = [k \in {GS_PUBKEY} |-> << >>]
    /\ op = NoOp
    /\ vm = IdleVm
    /\ first = None
    /\ ledger = EmptyLedger
    /\ \E d \in ContractDatas(schema) \cup ForeignDatas :
          wrapper = [NoWrapper EXCEPT !.data = Some(d)]

\* stock.contract_wrapper::<C>(contract_id): a wrapper is built over the data.
With ==
    /\ wrapper.built = None
    /\ \E kind \in WrapperKinds :
          wrapper' = [wrapper EXCEPT !.kind = kind,
                                     !.built = Some(with(kind, Val(wrapper.data)))]
    /\ UNCHANGED << schema, contract, op, vm, first, ledger >>

Built == IsSome(wrapper.built) /\ Val(wrapper.built).tag = "returned"
Held == Val(wrapper.built).value

\* An accessor is called on a wrapper; a panic ends the caller.
Query ==
    /\ Built
    /\ IsSome(wrapper.result) => Val(wrapper.result).tag = "returned"
    /\ \E acc \in Accessors[Held.kind] :
          wrapper' = [wrapper EXCEPT !.call = acc,
                                     !.result = Some(Call(acc, Held.data))]
    /\ UNCHANGED << schema, contract, op, vm, first, ledger >>

NextWrapper == With \/ Query

SpecWrapper == InitWrapper /\ [][NextWrapper]_vars

(***************************************************************************)
(* C1.  Genesis issued-supply rule.                                        *)
(***************************************************************************)
\* C1 as stated: in NIA, CFA, PFA and IFA a genesis whose OS_ASSET outputs
\* sum to the declared issuedSupply is accepted, and one whose outputs sum to
\* something else is rejected with ERRNO_ISSUED_MISMATCH.
C1_AsStated ==
    (Done /\ IsGenesis /\ schema \in {"NIA", "CFA", "PFA", "IFA"}) =>
        /\ OutSum(OS_ASSET) = DeclaredIssued => Accepted
        /\ OutSum(OS_ASSET) /= DeclaredIssued => Rejected(ERRNO_ISSUED_MISMATCH)

\* C1 amended: in NIA, CFA, PFA and IFA a genesis is rejected with
\* ERRNO_ISSUED_MISMATCH exactly when its OS_ASSET outputs do not sum to the
\* declared issuedSupply; in NIA, CFA and PFA a genesis whose outputs sum to
\* the declared issuedSupply is accepted (IFA goes on to its inflation check).
C1_IssuedSupplyRule ==
    (Done /\ IsGenesis /\ schema \in {"NIA", "CFA", "PFA", "IFA"}) =>
        /\ Rejected(ERRNO_ISSUED_MISMATCH) <=> OutSum(OS_ASSET) /= DeclaredIssued
        /\ (schema /= "IFA" /\ OutSum(OS_ASSET) = DeclaredIssued) => Accepted

\* A fixed-supply genesis of two allocations that sum to the declared supply
\* has been accepted.
C1_Witness ==
    /\ Accepted /\ IsGenesis /\ schema = "NIA"
    /\ OutCount(OS_ASSET) = 2
    /\ OutSum(OS_ASSET) = DeclaredIssued

(***************************************************************************)
(* C2.  Conservation in NIA and CFA transfers.                             *)
(***************************************************************************)
\* C2: a transfer of the fixed-supply or the collectible archetype is accepted
\* when its OS_ASSET inputs and outputs have equal sums and is rejected with
\* ERRNO_NON_EQUAL_IN_OUT when they differ.
C2_Conservation ==
    (Done /\ IsTransition(TS_TRANSFER) /\ schema \in {"NIA", "CFA"}) =>
        /\ InSum(OS_ASSET) = OutSum(OS_ASSET) => Accepted
        /\ InSum(OS_ASSET) /= OutSum(OS_ASSET) => Rejected(ERRNO_NON_EQUAL_IN_OUT)

\* A transfer merging two allocations into one of the same total was accepted.
C2_Witness ==
    /\ Accepted /\ IsTransition(TS_TRANSFER) /\ schema = "CFA"
    /\ InCount(OS_ASSET) = 2 /\ OutCount(OS_ASSET) = 1
    /\ InSum(OS_ASSET) = OutSum(OS_ASSET)

(***************************************************************************)
(* C3.  IFA genesis.                                                       *)
(***************************************************************************)
IfaGenesisIssuedOk == OutSum(OS_ASSET) = DeclaredIssued
IfaGenesisInflationOk ==
    /\ DeclaredMax >= DeclaredIssued
    /\ OutSum(OS_INFLATION) = DeclaredMax - DeclaredIssued

\* C3: an IFA genesis is accepted exactly when (a) its OS_ASSET outputs sum to
\* issuedSupply and (b) maxSupply >= issuedSupply and its OS_INFLATION outputs
\* sum to maxSupply - issuedSupply.  The checks run in that order: failing (a)
\* rejects with ERRNO_ISSUED_MISMATCH, passing (a) and failing (b), underflow
\* of the subtraction included, rejects with ERRNO_INFLATION_MISMATCH.
C3_IfaGenesis ==
    (Done /\ IsGenesis /\ schema = "IFA") =>
        /\ Accepted <=> (IfaGenesisIssuedOk /\ IfaGenesisInflationOk)
        /\ ~IfaGenesisIssuedOk => Rejected(ERRNO_ISSUED_MISMATCH)
        /\ (IfaGenesisIssuedOk /\ ~IfaGenesisInflationOk)
              => Rejected(ERRNO_INFLATION_MISMATCH)

\* An IFA genesis with maxSupply below issuedSupply was rejected with
\* ERRNO_INFLATION_MISMATCH.
C3_Witness ==
    /\ IsGenesis /\ schema = "IFA"
    /\ IfaGenesisIssuedOk /\ DeclaredMax < DeclaredIssued
    /\ Rejected(ERRNO_INFLATION_MISMATCH)

(***************************************************************************)
(* C4, C5.  IFA inflate.                                                   *)
(***************************************************************************)
InflateIssuedOk == OutSum(OS_ASSET) = DeclaredIssued
InflateAllowanceOk == OutSum(OS_INFLATION) = AllowedInflation
InflateInputsOk == InSum(OS_INFLATION) = DeclaredIssued + AllowedInflation

\* C4: an IFA inflate transition is accepted exactly when its OS_ASSET
\* outputs sum to the issuedSupply it declares, its OS_INFLATION outputs sum
\* to its allowedInflation, and its OS_INFLATION inputs sum to issuedSupply +
\* allowedInflation; the first check that fails reports
\* ERRNO_ISSUED_MISMATCH, ERRNO_INFLATION_MISMATCH or
\* ERRNO_INFLATION_EXCEEDS_ALLOWANCE respectively.
C4_IfaInflate ==
    (Done /\ IsTransition(TS_INFLATION) /\ schema = "IFA") =>
        /\ Accepted <=> (InflateIssuedOk /\ InflateAllowanceOk /\ InflateInputsOk)
        /\ ~InflateIssuedOk => Rejected(ERRNO_ISSUED_MISMATCH)
        /\ (InflateIssuedOk /\ ~InflateAllowanceOk)
              => Rejected(ERRNO_INFLATION_MISMATCH)
        /\ (InflateIssuedOk /\ InflateAllowanceOk /\ ~InflateInputsOk)
              => Rejected(ERRNO_INFLATION_EXCEEDS_ALLOWANCE)

\* An inflate that consumes two inflation rights, mints and keeps an
\* allowance was accepted.
C4_Witness ==
    /\ Accepted /\ IsTransition(TS_INFLATION) /\ schema = "IFA"
    /\ InCount(OS_INFLATION) = 2
    /\ DeclaredIssued > 0 /\ AllowedInflation > 0

\* The instruction before the one at the program counter.
Prev == Code[InstrIndex[Validator.lib][vm.pc] - 1]
InflateOverflows == DeclaredIssued + AllowedInflation > MaxU64

IfaConserved ==
    /\ InSum(OS_ASSET) = OutSum(OS_ASSET)
    /\ InSum(OS_INFLATION) = OutSum(OS_INFLATION)

\* C6: the IFA transfer and replace transitions share one validator; once
\* both conservation checks pass, a transition without OS_REPLACE inputs is
\* rejected with ERRNO_REPLACE_NO_INPUT unless it has no OS_REPLACE outputs,
\* one with N > 0 OS_REPLACE inputs is rejected with
\* ERRNO_REPLACE_HIDDEN_BURN unless it has at least N OS_REPLACE outputs,
\* and in every other case it is accepted.
C6_ReplaceRights ==
    /\ ifa_schema.transitions[TS_TRANSFER].validator
          = ifa_schema.transitions[TS_REPLACE].validator
    /\ (Done /\ schema = "IFA" /\ op.kind = "transition"
        /\ op.ttype \in {TS_TRANSFER, TS_REPLACE} /\ IfaConserved) =>
          /\ (InCount(OS_REPLACE) = 0 /\ OutCount(OS_REPLACE) /= 0)
                => Rejected(ERRNO_REPLACE_NO_INPUT)
          /\ (InCount(OS_REPLACE) > 0 /\ OutCount(OS_REPLACE) < InCount(OS_REPLACE))
                => Rejected(ERRNO_REPLACE_HIDDEN_BURN)
          /\ (InCount(OS_REPLACE) = 0 /\ OutCount(OS_REPLACE) = 0) => Accepted
          /\ (InCount(OS_REPLACE) > 0 /\ OutCount(OS_REPLACE) >= InCount(OS_REPLACE))
                => Accepted

\* A transfer that consumes two replace rights and assigns one was rejected
\* as a hidden burn.
C6_Witness ==
    /\ schema = "IFA" /\ IsTransition(TS_TRANSFER) /\ IfaConserved
    /\ InCount(OS_REPLACE) = 2 /\ OutCount(OS_REPLACE) = 1
    /\ Rejected(ERRNO_REPLACE_HIDDEN_BURN)

(***************************************************************************)
(* C7, C8.  UDA genesis and transfer.                                      *)
(***************************************************************************)
UdaOutput == op.outputs[OS_ASSET][1]
UdaInput == op.inputs[OS_ASSET][1]
UdaTokens == op.globals[GS_TOKENS][1]

\* C7: a UDA genesis has exactly one OS_ASSET output; it is accepted exactly
\* when that output's token index equals the index of the declared tokens
\* global and its fraction is 1; an index mismatch rejects with
\* ERRNO_NON_EQUAL_IN_OUT, a matching index with a fraction other than 1
\* rejects with ERRNO_NON_FRACTIONAL.
C7_UdaGenesis ==
    (IsGenesis /\ schema = "UDA") =>
        /\ OutCount(OS_ASSET) = 1
        /\ Done =>
            /\ Accepted <=> (UdaOutput.index = UdaTokens.index /\ UdaOutput.fraction = 1)
            /\ UdaOutput.index /= UdaTokens.index => Rejected(ERRNO_NON_EQUAL_IN_OUT)
            /\ (UdaOutput.index = UdaTokens.index /\ UdaOutput.fraction /= 1)
                  => Rejected(ERRNO_NON_FRACTIONAL)

\* A UDA genesis that assigns the declared token with a fraction of 2 was
\* rejected as fractional.
C7_Witness ==
    /\ IsGenesis /\ schema = "UDA"
    /\ UdaOutput.index = UdaTokens.index /\ UdaTokens.index > 0
    /\ UdaOutput.fraction = 2
    /\ Rejected(ERRNO_NON_FRACTIONAL)

\* C8: a UDA transfer is accepted exactly when its output's token index
\* equals its input's token index and its output's fraction equals its
\* input's fraction, which is 1; an index mismatch rejects with
\* ERRNO_NON_EQUAL_IN_OUT, a matching index with a fraction other than 1
\* rejects with ERRNO_NON_FRACTIONAL.
C8_UdaTransfer ==
    (Done /\ IsTransition(TS_TRANSFER) /\ schema = "UDA") =>
        /\ UdaInput.fraction = 1
        /\ Accepted <=> (/\ UdaOutput.index = UdaInput.index
                         /\ UdaOutput.fraction = UdaInput.fraction)
        /\ UdaOutput.index /= UdaInput.index => Rejected(ERRNO_NON_EQUAL_IN_OUT)
        /\ (UdaOutput.index = UdaInput.index /\ UdaOutput.fraction /= 1)
              => Rejected(ERRNO_NON_FRACTIONAL)

\* A UDA transfer that keeps token index 1 and the fraction of 1 was accepted.
C8_Witness ==
    /\ Accepted /\ IsTransition(TS_TRANSFER) /\ schema = "UDA"
    /\ UdaInput.index = 1 /\ UdaOutput.index = 1 /\ UdaOutput.fraction = 1

(***************************************************************************)
(* C9, C10.  PFA transfer.                                                 *)
(***************************************************************************)
PfaHasKey == Len(contract[GS_PUBKEY]) >= 1
\* The transition is signed, over itself, by the owner of the published key.
PfaSigned ==
    /\ PfaHasKey
    /\ op.signature = Some([signer |-> contract[GS_PUBKEY][1], over |-> "this"])
PfaConserved == InSum(OS_ASSET) = OutSum(OS_ASSET)

\* C9 as stated: a PFA transfer without a loadable public key rejects with
\* ERRNO_MISSING_PUBKEY and one with a key but an invalid signature rejects
\* with ERRNO_INVALID_SIGNATURE, whether or not its sums are equal (both
\* checks come before the conservation check).
C9_AsStated ==
    (Done /\ IsTransition(TS_TRANSFER) /\ schema = "PFA") =>
        /\ ~PfaHasKey => Rejected(ERRNO_MISSING_PUBKEY)
        /\ (PfaHasKey /\ ~PfaSigned) => Rejected(ERRNO_INVALID_SIGNATURE)

\* C9 amended: the conservation check comes first.  A PFA transfer with
\* unequal sums rejects with ERRNO_NON_EQUAL_IN_OUT whatever its key and
\* signature; with equal sums, one without a loadable public key rejects with
\* ERRNO_MISSING_PUBKEY and one with a key but an invalid signature rejects
\* with ERRNO_INVALID_SIGNATURE.
C9_PfaErrorOrder ==
    (Done /\ IsTransition(TS_TRANSFER) /\ schema = "PFA") =>
        /\ ~PfaConserved => Rejected(ERRNO_NON_EQUAL_IN_OUT)
        /\ (PfaConserved /\ ~PfaHasKey) => Rejected(ERRNO_MISSING_PUBKEY)
        /\ (PfaConserved /\ PfaHasKey /\ ~PfaSigned)
              => Rejected(ERRNO_INVALID_SIGNATURE)

\* A conserving PFA transfer signed by somebody else's key was rejected for
\* its signature.
C9_Witness ==
    /\ IsTransition(TS_TRANSFER) /\ schema = "PFA"
    /\ PfaConserved /\ PfaHasKey /\ IsSome(op.signature)
    /\ Val(op.signature).signer /= contract[GS_PUBKEY][1]
    /\ Rejected(ERRNO_INVALID_SIGNATURE)

\* C10: a PFA transfer is accepted if and only if its OS_ASSET inputs and
\* outputs have equal sums and it carries a valid signature under the public
\* key at index 0 of the contract's pubkey global.
C10_PfaAcceptance ==
    (Done /\ IsTransition(TS_TRANSFER) /\ schema = "PFA") =>
        (Accepted <=> (PfaConserved /\ PfaSigned))

\* A conserving PFA transfer signed under the published key was accepted.
C10_Witness ==
    /\ Accepted /\ IsTransition(TS_TRANSFER) /\ schema = "PFA"
    /\ PfaConserved /\ PfaSigned
    /\ InCount(OS_ASSET) = 2

(***************************************************************************)
(* C11.  First-failure semantics.                                          *)
(***************************************************************************)
LoadOps == {"ldg", "ldc", "ldm", "ldp", "lds"}

\* A rejected validation stopped at a test (or at a load that found nothing)
\* and reports the code held by a8[0].
RejectedAtFirstFailure ==
    vm.status = "reject" =>
        /\ Cur.op \in {"test"} \cup LoadOps
        /\ vm.errno = vm.a["a8[0]"]
        /\ IsSome(vm.errno)

\* C11: the first failing test aborts the whole validation: a verdict is
\* final (no instruction executes after it), a rejection happens at a test
\* and reports the code most recently put into a8[0]; an IFA genesis that
\* violates both the issued-supply and the inflation check reports
\* ERRNO_ISSUED_MISMATCH, and an IFA transfer that violates asset
\* conservation and the replace-right rule reports ERRNO_NON_EQUAL_IN_OUT.
C11_FirstFailure ==
    /\ [](RejectedAtFirstFailure)
    /\ []((Done /\ IsGenesis /\ schema = "IFA"
           /\ ~IfaGenesisIssuedOk /\ ~IfaGenesisInflationOk)
            => Rejected(ERRNO_ISSUED_MISMATCH))
    /\ []((Done /\ IsTransition(TS_TRANSFER) /\ schema = "IFA"
           /\ InSum(OS_ASSET) /= OutSum(OS_ASSET)
           /\ OutCount(OS_REPLACE) < InCount(OS_REPLACE))
            => Rejected(ERRNO_NON_EQUAL_IN_OUT))
    /\ [][vm.status = "running"]_vars

\* An IFA genesis with a wrong asset sum and wrong inflation rights was
\* rejected with ERRNO_ISSUED_MISMATCH.
C11_Witness ==
    /\ IsGenesis /\ schema = "IFA"
    /\ ~IfaGenesisIssuedOk /\ ~IfaGenesisInflationOk
    /\ DeclaredMax >= DeclaredIssued
    /\ Rejected(ERRNO_ISSUED_MISMATCH)

(***************************************************************************)
(* C13.  Determinism.                                                      *)
(***************************************************************************)
\* C13: two validations of the same proposed state (globals, metadata,
\* inputs, outputs, signature) by the same entry point give the same verdict
\* and, on reject, the same code, whether or not the registers of the first
\* run were cleared and in whatever order the assignments of a slot are
\* enumerated.
C13_Determinism ==
    (Done /\ IsSome(first)) =>
        /\ vm.status = Val(first).status
        /\ vm.errno = Val(first).errno

\* A transfer of two allocations was rejected a second time, on registers
\* left by the first run and with its inputs enumerated in the other order.
C13_Witness ==
    /\ IsSome(first) /\ Val(first).status = "reject"
    /\ vm.status = "reject"
    /\ IsTransition(TS_TRANSFER) /\ schema = "IFA"
    /\ InCount(OS_ASSET) = 2 /\ op.inputs[OS_ASSET][1] > op.inputs[OS_ASSET][2]

(***************************************************************************)
(* C14.  Termination.                                                      *)
(***************************************************************************)
\* Every jmp / jif of every library targets the start of an instruction that
\* lies strictly after the jump itself.
JumpsForward ==
    \A l \in DOMAIN Libs : \A k \in 1..Len(Libs[l]) :
        Libs[l][k].op \in {"jmp", "jif"} =>
            /\ Libs[l][k].off > OffsetOf(Libs[l], k)
            /\ Libs[l][k].off \in DOMAIN InstrIndex[l]
            /\ InstrIndex[l][Libs[l][k].off] > 0

\* C14: from every declared entry point execution terminates, by ret, by
\* running off the end of the code or by a failing instruction; every step
\* that leaves the machine running moves the program counter forward, so
\* each instruction executes at most once; every jmp / jif of the programs
\* targets an offset strictly greater than its own.
C14_Termination ==
    /\ [](JumpsForward)
    /\ [][vm'.status = "running" => vm'.pc > vm.pc]_vars
    /\ <>Done

\* The UDA transfer subroutine has taken its jump into the shared block.
C14_Witness ==
    /\ schema = "UDA" /\ IsTransition(TS_TRANSFER)
    /\ vm.status = "running" /\ vm.pc = FN_SHARED_OFFSET

(***************************************************************************)
(* C15.  Burn bypass.                                                      *)
(***************************************************************************)
\* A transition declares outputs when some slot may be assigned.
DeclaresOutputs(t) == \E ty \in OwnedSlots : OccOf(t.assignments, ty).max > 0

\* C15: the IFA burn transition has no validator and declares no outputs, so
\* every burn that conforms to the schema is accepted, whatever OS_ASSET,
\* OS_REPLACE and OS_INFLATION inputs it consumes, and produces nothing; burn
\* is the only transition of any archetype without a validator, and every
\* transition that declares an output slot has one.
C15_BurnBypass ==
    /\ ifa_schema.transitions[TS_BURN].validator = NoValidator
    /\ ~DeclaresOutputs(ifa_schema.transitions[TS_BURN])
    /\ \A sc \in SchemaNames : \A tt \in DOMAIN Schemas[sc].transitions :
          /\ (Schemas[sc].transitions[tt].validator = NoValidator)
                <=> (sc = "IFA" /\ tt = TS_BURN)
          /\ DeclaresOutputs(Schemas[sc].transitions[tt])
                => Schemas[sc].transitions[tt].validator /= NoValidator
    /\ (schema = "IFA" /\ IsTransition(TS_BURN)) =>
          /\ ~HasValidator
          /\ \A ty \in OwnedSlots : OutCount(ty) = 0
          /\ Done => Accepted

\* A burn that consumes an asset allocation and a replace right was accepted.
C15_Witness ==
    /\ Accepted /\ schema = "IFA" /\ IsTransition(TS_BURN)
    /\ InCount(OS_ASSET) = 1 /\ InCount(OS_REPLACE) = 1

(***************************************************************************)
(* C16.  Supply accounting of NIA, CFA and PFA.                            *)
(***************************************************************************)
\* C16: in NIA, CFA and PFA, after an accepted genesis and any sequence of
\* accepted transfers, total_issued_supply() equals the issuedSupply the
\* genesis declared and equals the sum of the unspent OS_ASSET allocations;
\* a genesis that issues its whole supply to one owner leaves exactly one
\* allocation of that value.
C16_SupplyAccounting ==
    (schema \in {"NIA", "CFA", "PFA"} /\ ledger.issued) =>
        /\ Len(ledger.globals[GS_ISSUED_SUPPLY]) = 1
        /\ total_issued_supply = ledger.globals[GS_ISSUED_SUPPLY][1]
        /\ total_issued_supply = SumSeq(allocations)
        /\ Len(allocations) = 1 => allocations = << total_issued_supply >>

\* After a genesis and two accepted transfers, three allocations are unspent.
C16_Witness ==
    /\ schema = "CFA" /\ ledger.issued /\ ledger.nops = 3
    /\ Len(allocations) = 3 /\ Idle

(***************************************************************************)
(* C17.  Typed wrapper construction.                                       *)
(***************************************************************************)
PinnedSchemaId ==
    [NiaWrapper |-> NIA_SCHEMA_ID, CfaWrapper |-> CFA_SCHEMA_ID,
     PfaWrapper |-> PFA_SCHEMA_ID, IfaWrapper |-> IFA_SCHEMA_ID,
     UdaWrapper |-> UDA_SCHEMA_ID]

\* C17: with(data) of a wrapper returns a wrapper of that kind holding data
\* unchanged exactly when the schema id of data is the id pinned for the
\* wrapper's archetype; otherwise, the id of another archetype included, it
\* panics and there is no wrapper value.
C17_TypedConstruction ==
    IsSome(wrapper.built) =>
        LET d == Val(wrapper.data)
            r == Val(wrapper.built)
        IN  /\ r.tag \in {"returned", "panic"}
            /\ r.tag = "returned" <=> d.schema_id = PinnedSchemaId[wrapper.kind]
            /\ r.tag = "returned" => r.value = [kind |-> wrapper.kind, data |-> d]
            /\ r.tag = "panic" => /\ "value" \notin DOMAIN r
                                  /\ wrapper.call = "none" /\ wrapper.result = None

\* An IFA wrapper was asked for over data of the NIA schema and panicked.
C17_Witness ==
    /\ wrapper.kind = "IfaWrapper"
    /\ IsSome(wrapper.data) /\ Val(wrapper.data).schema_id = NIA_SCHEMA_ID
    /\ IsSome(wrapper.built) /\ Val(wrapper.built).tag = "panic"

(***************************************************************************)
(* C18.  Failure modes of the accessors.                                   *)
(***************************************************************************)
\* The global slot each accessor reads.
SlotRead ==
    [spec |-> GS_NOMINAL, contract_terms |-> GS_TERMS, name |-> GS_NAME,
     precision |-> GS_PRECISION, token_data |-> GS_TOKENS,
     details |-> GS_DETAILS, reject_list_url |-> GS_REJECT_LIST_URL,
     total_issued_supply |-> GS_ISSUED_SUPPLY, max_supply |-> GS_MAX_SUPPLY]
RequiredAccessors == {"spec", "contract_terms", "name", "precision", "token_data"}
OptionalAccessors == {"details", "reject_list_url"}
SumAccessors == {"total_issued_supply", "max_supply"}

AccessorOutcome ==
    wrapper.call /= "none" =>
        LET entries == Held.data.globals[SlotRead[wrapper.call]]
            r == Val(wrapper.result)
        IN  /\ wrapper.call \in RequiredAccessors =>
                /\ r.tag = "panic" <=> entries = << >>
                /\ entries /= << >> =>
                      r.tag = "returned" /\ r.value.value = entries[1]
            /\ wrapper.call \in OptionalAccessors =>
                /\ r.tag = "returned"
                /\ entries = << >> => r.value = None
                /\ entries /= << >> =>
                      IsSome(r.value) /\ Val(r.value).value = entries[1]
            /\ wrapper.call \in SumAccessors =>
                /\ r.tag = "returned"
                /\ r.value.value = SumSeq(entries)
                /\ entries = << >> => r.value.value = 0

\* C18: an accessor of a required slot fails exactly when the slot is empty
\* and otherwise returns its first value; an accessor of an optional slot
\* returns none when the slot is absent; total_issued_supply() and
\* max_supply() return the sum over the entries of the slot, 0 when there is
\* none, and never fail; no accessor runs a validator or changes the data
\* the wrapper holds or the contract state.
C18_QueryFailureModes ==
    /\ [](AccessorOutcome)
    /\ [][Built => /\ wrapper'.data = wrapper.data
                   /\ wrapper'.built = wrapper.built
                   /\ ledger' = ledger /\ contract' = contract /\ vm' = vm]_vars

\* token_data() was called on a UDA wrapper whose tokens slot is empty, after
\* an accessor that returned.
C18_Witness ==
    /\ Built /\ Held.kind = "UdaWrapper"
    /\ wrapper.call = "token_data"
    /\ Held.data.globals[GS_TOKENS] = << >>
    /\ Held.data.globals[GS_NOMINAL] /= << >>
    /\ Val(wrapper.result).tag = "panic"

(***************************************************************************)
(* C19.  Entry-point closure.                                              *)
(***************************************************************************)
\* The validator entry points a schema names: genesis and every transition
\* that has a program.
EntryPoints(sc) ==
    {v \in {Schemas[sc].genesis.validator} \cup
           {Schemas[sc].transitions[tt].validator : tt \in DOMAIN Schemas[sc].transitions} :
        v /= NoValidator}
EntryLibs(sc) == {v.lib : v \in EntryPoints(sc)}

\* C19: for every archetype, the library of every validator entry point of
\* its schema is a key of its scripts(), and every library of scripts() is
\* the library of some entry point; the program a validation runs is the one
\* scripts() holds under the entry point's library id.
C19_EntryPointClosure ==
    /\ \A sc \in SchemaNames :
          /\ EntryLibs(sc) \subseteq DOMAIN scripts[sc]
          /\ DOMAIN scripts[sc] \subseteq EntryLibs(sc)
    /\ HasValidator =>
          /\ Validator.lib \in DOMAIN scripts[schema]
          /\ scripts[schema][Validator.lib] = Code

\* A PFA transfer is being validated by the program of pfa_lib_transition,
\* the second library of the PFA scripts.
C19_Witness ==
    /\ schema = "PFA" /\ IsTransition(TS_TRANSFER)
    /\ Validator.lib = "pfa_lib_transition"
    /\ vm.status = "running" /\ vm.pc > Validator.pos

(***************************************************************************)
(* C20.  Every check is consumed.                                          *)
(***************************************************************************)
CheckOps == {"svs", "sas", "sps", "eq.n", "lt.u", "add.uc", "sub.uc", "vts"}

\* The operation of the k-th instruction of a library, "end" past its end.
OpAt(l, k) == IF k \in 1..Len(Libs[l]) THEN Libs[l][k].op ELSE "end"

\* C20 as stated: in the program of every validator every comparison/sum
\* instruction is immediately followed by test.
C20_AsStated ==
    HasValidator =>
        \A k \in 1..Len(Code) :
            OpAt(Validator.lib, k) \in CheckOps => OpAt(Validator.lib, k + 1) = "test"

\* The instruction at index k of library l is a check whose result the next
\* instructions consume without a test right behind it.
BranchedOn(l, k) == OpAt(l, k) = "eq.n" /\ OpAt(l, k + 1) = "jif"
InvertedThenTested(l, k) ==
    OpAt(l, k) = "lt.u" /\ OpAt(l, k + 1) = "inv" /\ OpAt(l, k + 2) = "test"

\* C20: in every program every comparison/sum instruction is immediately
\* followed by test, except in ifa_lib_transfer, where the eq.n on the
\* input replace-right count is immediately followed by the jif that
\* branches on it and the lt.u is followed by inv st0 and then test; a check
\* never ends a run, and the step after it executes test, inv or jif.
C20_ChecksConsumed ==
    /\ [](\A l \in DOMAIN Libs : \A k \in 1..Len(Libs[l]) :
            OpAt(l, k) \in CheckOps =>
                \/ OpAt(l, k + 1) = "test"
                \/ l = "ifa_lib_transfer" /\ BranchedOn(l, k)
                \/ l = "ifa_lib_transfer" /\ InvertedThenTested(l, k))
    /\ [][(AtInstr /\ Cur.op \in CheckOps) =>
             /\ vm'.status = "running"
             /\ InstrIndex[Validator.lib][vm'.pc] > 0
             /\ OpAt(Validator.lib, InstrIndex[Validator.lib][vm'.pc])
                    \in {"test", "inv", "jif"}]_vars

\* An IFA transfer with input replace rights: the eq.n on the input count
\* has run, the branch was not taken, and the machine stands behind the
\* jif with st0 cleared.
C20_Witness ==
    /\ schema = "IFA" /\ IsTransition(TS_TRANSFER)
    /\ InCount(OS_REPLACE) > 0
    /\ vm.status = "running"
    /\ vm.pc = OffsetOf(ifa_lib_transfer, 11)
    /\ ~vm.st0

(***************************************************************************)
(* C21.  Entry offsets and jump targets.                                   *)
(***************************************************************************)
\* The instruction a library holds at a byte offset, "none" when no
\* instruction starts there.
InstrAt(l, off) ==
    IF off \in DOMAIN InstrIndex[l] /\ InstrIndex[l][off] > 0
    THEN Libs[l][InstrIndex[l][off]] ELSE [op |-> "none"]
\* The instruction assembled right before the one at a byte offset.
InstrBefore(l, off) ==
    IF off \in DOMAIN InstrIndex[l] /\ InstrIndex[l][off] > 1
    THEN Libs[l][InstrIndex[l][off] - 1] ELSE [op |-> "none"]

OffsetsLand ==
    /\ InstrBefore("nia_lib", FN_NIA_GENESIS_OFFSET) = Ret
    /\ InstrAt("nia_lib", FN_NIA_GENESIS_OFFSET) = Put("a8[0]", ERRNO_ISSUED_MISMATCH)
    /\ InstrAt("nia_lib", FN_NIA_GENESIS_OFFSET + 4).op = "put"
    /\ InstrAt("nia_lib", FN_NIA_GENESIS_OFFSET + 8).op = "put"
    /\ InstrAt("nia_lib", FN_NIA_TRANSFER_OFFSET + 4).op = "svs"
    /\ FN_TRANSFER_OFFSET = 0 /\ FN_GENESIS_OFFSET = 11 /\ FN_SHARED_OFFSET = 23
    /\ InstrIndex["uda_lib"][FN_TRANSFER_OFFSET] = 1
    /\ InstrIndex["uda_lib"][FN_GENESIS_OFFSET] = 4
    /\ InstrIndex["uda_lib"][FN_SHARED_OFFSET] = 7
    /\ InstrAt("uda_lib", FN_TRANSFER_OFFSET).op = "put"
    /\ InstrAt("uda_lib", FN_GENESIS_OFFSET).op = "put"
    /\ InstrAt("uda_lib", FN_GENESIS_OFFSET + 8).op = "ldg"
    /\ InstrAt("uda_lib", FN_SHARED_OFFSET) = Put("a8[0]", ERRNO_NON_EQUAL_IN_OUT)
    /\ InstrAt("uda_lib", FN_SHARED_OFFSET + 4).op = "extr"
    /\ InstrBefore("uda_lib", FN_GENESIS_OFFSET).op = "jmp"
    /\ InstrBefore("uda_lib", FN_GENESIS_OFFSET).off = FN_SHARED_OFFSET
    /\ ifa_lib_transfer[10] = Jif(40)
    /\ InstrAt("ifa_lib_transfer", 40) = Put("a8[0]", ERRNO_REPLACE_NO_INPUT)
    /\ InstrBefore("ifa_lib_transfer", 40) = Ret

\* C21: NIA genesis offset 9 is the first instruction after the transfer
\* subroutine's ret; UDA offsets 0, 11 and 23 are the first instructions of
\* the transfer, genesis and shared blocks; jif 40 of the IFA transfer
\* targets put a8[0],ERRNO_REPLACE_NO_INPUT.  A validation entered at the
\* NIA or UDA transfer entry never stands at ldg, and one entered at the UDA
\* genesis entry never stands at ldp.
C21_OffsetsLand ==
    /\ OffsetsLand
    /\ (vm.status = "running" /\ HasValidator) => AtInstr \/ AtEnd
    /\ (AtInstr /\ schema \in {"NIA", "UDA"} /\ IsTransition(TS_TRANSFER)) =>
          Cur.op /= "ldg"
    /\ (AtInstr /\ schema = "UDA" /\ IsGenesis) => Cur.op /= "ldp"

\* A UDA transfer has taken the jump out of the transfer block and stands at
\* the first instruction of the shared block.
C21_Witness ==
    /\ schema = "UDA" /\ IsTransition(TS_TRANSFER)
    /\ vm.status = "running" /\ vm.pc = FN_SHARED_OFFSET
    /\ IsSome(vm.s["s16[0]"]) /\ vm.a["a8[1]"] = None

(***************************************************************************)
(* C22.  CFA validates as NIA does.                                        *)
(***************************************************************************)
Verdict == [status |-> vm.status, errno |-> vm.errno]

\* The verdict of the fixed-supply rule as a function of the kind of the
\* operation, the declared issued supply and the OS_ASSET inputs and
\* outputs; nothing else of the operation enters it.
FixedSupplyVerdict(kind, issued, ins, outs) ==
    IF kind = "genesis"
    THEN IF SumSeq(outs) = issued
         THEN [status |-> "accept", errno |-> None]
         ELSE [status |-> "reject", errno |-> Some(ERRNO_ISSUED_MISMATCH)]
    ELSE IF SumSeq(ins) = SumSeq(outs) /\ SumSeq(ins) <= MaxU64
         THEN [status |-> "accept", errno |-> None]
         ELSE [status |-> "reject", errno |-> Some(ERRNO_NON_EQUAL_IN_OUT)]

\* C22: the genesis and transfer entry points of CFA are the (library,
\* offset) pairs of NIA, and the verdict and error code of every CFA genesis
\* or transfer are those NIA gives for the same issuedSupply and OS_ASSET
\* inputs and outputs: both are the same function of these values alone.
C22_CfaAsNia ==
    /\ cfa_schema.genesis.validator = nia_schema.genesis.validator
    /\ cfa_schema.transitions[TS_TRANSFER].validator =
           nia_schema.transitions[TS_TRANSFER].validator
    /\ DOMAIN cfa_schema.transitions = DOMAIN nia_schema.transitions
    /\ (Done /\ schema \in {"NIA", "CFA"}) =>
          Verdict = FixedSupplyVerdict(op.kind,
                        IF IsGenesis THEN DeclaredIssued ELSE 0,
                        op.inputs[OS_ASSET], op.outputs[OS_ASSET])

\* A CFA genesis that carries the optional details and art was rejected for
\* its issued supply, as the NIA rule rejects it.
C22_Witness ==
    /\ schema = "CFA" /\ IsGenesis
    /\ op.globals[GS_DETAILS] /= << >> /\ op.globals[GS_ART] /= << >>
    /\ OutSum(OS_ASSET) /= DeclaredIssued
    /\ Rejected(ERRNO_ISSUED_MISMATCH)

(***************************************************************************)
(* C23.  Optional global slots are not read.                               *)
(***************************************************************************)
\* The global slots a genesis may leave out.
OptionalSlots(sc) ==
    {k \in DOMAIN Schemas[sc].genesis.globals :
        Schemas[sc].genesis.globals[k] = NoneOrOnce}

\* The libraries the entry points of a schema name.
LibsOf(sc) ==
    {v.lib : v \in ({Schemas[sc].genesis.validator} \cup
                    {Schemas[sc].transitions[tt].validator :
                        tt \in DOMAIN Schemas[sc].transitions}) \ {NoValidator}}

NoProgramReadsOptional ==
    \A sc \in SchemaNames : \A l \in LibsOf(sc) : \A k \in 1..Len(Libs[l]) :
        Libs[l][k].op \in {"ldg", "ldc"} => Libs[l][k].slot \notin OptionalSlots(sc)

\* The operation with its optional global slots left out or filled in, in
\* every combination.
OptionalVariants(o) ==
    {[o EXCEPT !.globals = [k \in GlobalSlots |->
                               IF k \in OptionalSlots(schema) THEN f[k]
                               ELSE o.globals[k]]] :
        f \in [OptionalSlots(schema) -> {<< >>, << 0 >>}]}

\* C23: the optional global slots are CFA art and details, UDA
\* attachmentTypes and IFA rejectListUrl; no program reads one of them; every
\* step of a genesis validation that reads global state leaves the machine as
\* it would with these slots absent or present, so the verdict and the error
\* code do not depend on them; a genesis that goes without them stops only at
\* a test, never at the load of a missing slot.
C23_OptionalNotRead ==
    /\ [](/\ OptionalSlots("NIA") = {} /\ OptionalSlots("PFA") = {}
          /\ OptionalSlots("CFA") = {GS_ART, GS_DETAILS}
          /\ OptionalSlots("UDA") = {GS_ATTACH}
          /\ OptionalSlots("IFA") = {GS_REJECT_LIST_URL}
          /\ NoProgramReadsOptional)
    /\ []((IsGenesis /\ vm.status = "reject") => Cur.op = "test")
    /\ [][(IsGenesis /\ AtInstr /\ Cur.op = "ldg") =>
             \A o \in OptionalVariants(op) : vm' = ExecLdgOn(vm, Cur, o)]_vars

\* A UDA genesis without attachment types was accepted.
C23_Witness ==
    /\ schema = "UDA" /\ IsGenesis /\ Accepted
    /\ op.globals[GS_ATTACH] = << >>

(***************************************************************************)
(* C24.  Every rejection carries an error code.                            *)
(***************************************************************************)
\* The instructions the claim counts as able to abort a validation.
AbortOps == {"ldg", "ldc", "ldm", "ldp", "lds", "extr", "cnp", "cns", "test"}
\* Registers are unset at entry and only put writes a8[0]: it holds a value
\* exactly when a put a8[0] has executed.
ErrnoSet == IsSome(vm.a["a8[0]"])

\* C24 as stated: on every path from every entry point a put a8[0] has
\* executed before an instruction that can abort, the UDA transfer and
\* genesis paths included.
C24_AsStated == (AtInstr /\ Cur.op \in AbortOps) => ErrnoSet

\* C24: every rejection reports a defined error code.  In every library but
\* uda_lib a put a8[0] has executed before each instruction that can abort;
\* the transfer path of uda_lib executes ldp and its genesis path executes
\* ldg before the first put a8[0] (the one of the shared block), and these
\* two loads never abort on an operation that has the one OS_ASSET input and
\* the one tokens value its schema requires.
C24_RejectionHasCode ==
    /\ [](vm.status = "reject" => IsSome(vm.errno) /\ vm.errno = vm.a["a8[0]"])
    /\ []((AtInstr /\ Cur.op \in AbortOps /\ ~ErrnoSet) =>
             /\ Validator.lib = "uda_lib"
             /\ \/ IsTransition(TS_TRANSFER) /\ Cur.op = "ldp" /\ vm.pc < FN_GENESIS_OFFSET
                \/ IsGenesis /\ Cur.op = "ldg" /\ vm.pc < FN_SHARED_OFFSET)
    /\ [][(AtInstr /\ Cur.op \in AbortOps /\ ~ErrnoSet) => vm'.status = "running"]_vars

\* A UDA transfer stands at its ldp with no error code set yet.
C24_Witness ==
    /\ schema = "UDA" /\ IsTransition(TS_TRANSFER)
    /\ AtInstr /\ Cur.op = "ldp" /\ ~ErrnoSet
    /\ InCount(OS_ASSET) = 1

(***************************************************************************)
(* IFA histories: the supply cap.                                          *)
(***************************************************************************)
\* The contract data of the ledger as the IFA wrapper reads it.
IfaView == [schema_id |-> IFA_SCHEMA_ID, globals |-> ledger.globals]
IssuedTotal == wrapper_total_issued_supply(IfaView).value.value
MaxTotal == max_supply(IfaView).value.value
UnspentSum(ty) == SumSeq(ledger.unspent[ty])
\* What of the maximum supply is neither issued nor held as a right to issue.
SupplySlack == MaxTotal - (IssuedTotal + UnspentSum(OS_INFLATION))
BurnsInflation ==
    IsTransition(TS_BURN) /\ op.inputs[OS_INFLATION] /= << >>

C25_Cap ==
    (schema = "IFA" /\ ledger.issued) =>
        /\ IssuedTotal + UnspentSum(OS_INFLATION) <= MaxTotal
        /\ IssuedTotal <= MaxTotal
        /\ UnspentSum(OS_ASSET) <= IssuedTotal

\* An applied operation leaves the slack as it was (nothing before genesis,
\* hence nothing after it) unless it is a burn that consumes inflation rights.
C25_Step ==
    (schema = "IFA" /\ ledger' /= ledger) =>
        IF BurnsInflation THEN SupplySlack' >= SupplySlack
        ELSE SupplySlack' = SupplySlack

\* C25: in every IFA history the issued supply plus the unspent inflation
\* rights is at most the maximum supply, with equality until a burn consumes
\* inflation rights; so the issued supply never exceeds the maximum, and the
\* unspent asset allocations never exceed the issued supply.
C25_SupplyCap == [](C25_Cap /\ (~ledger.issued => SupplySlack = 0)) /\ [][C25_Step]_vars

\* Reached: genesis, an inflation and a burn of inflation rights have been
\* applied, and the slack is no longer zero.
C25_Witness ==
    /\ schema = "IFA" /\ ledger.nops = 3
    /\ Len(ledger.globals[GS_ISSUED_SUPPLY]) = 2
    /\ IssuedTotal > 0
    /\ SupplySlack > 0

(***************************************************************************)
(* IFA histories: replace rights.                                          *)
(***************************************************************************)
ReplaceRights == Len(ledger.unspent[OS_REPLACE])

C26_Step ==
    (schema = "IFA" /\ ledger' /= ledger) =>
        /\ (ledger.issued /\ ReplaceRights = 0) => ReplaceRights' = 0
        /\ (IsTransition(TS_TRANSFER) \/ IsTransition(TS_REPLACE)) =>
              ReplaceRights' >= ReplaceRights
        /\ IsTransition(TS_INFLATION) =>
              /\ InCount(OS_REPLACE) = 0 /\ OutCount(OS_REPLACE) = 0
              /\ ledger'.unspent[OS_REPLACE] = ledger.unspent[OS_REPLACE]
        /\ ReplaceRights' < ReplaceRights => IsTransition(TS_BURN)

\* C26: in every IFA history, once the contract holds no replace right (so
\* from a genesis that assigns none) no applied transition brings one; an
\* applied transfer or replace never lowers the number of unspent replace
\* rights, an applied inflate neither spends nor assigns them, and only a
\* burn lowers their number.
C26_NoReplaceFromNothing == [][C26_Step]_vars

\* Reached: a transfer spending one replace right and assigning two has been
\* accepted after a genesis that assigned the right.
C26_Witness ==
    /\ schema = "IFA" /\ ledger.issued /\ Accepted
    /\ IsTransition(TS_TRANSFER)
    /\ InCount(OS_REPLACE) = 1 /\ OutCount(OS_REPLACE) = 2

(***************************************************************************)
(* UDA histories: the one token.                                           *)
(***************************************************************************)
\* C27: in every UDA history the contract holds exactly one unspent OS_ASSET
\* allocation; its token index is the index of the genesis tokens global and
\* its fraction is 1.
C27_UdaUnique ==
    (schema = "UDA" /\ ledger.issued) =>
        /\ Len(ledger.globals[GS_TOKENS]) = 1
        /\ Len(allocations) = 1
        /\ allocations[1].index = ledger.globals[GS_TOKENS][1].index
        /\ allocations[1].fraction = 1
        /\ TotalLen(ledger.unspent) = 1

\* Reached: the token of index 1 has been transferred twice.
C27_Witness ==
    /\ schema = "UDA" /\ ledger.nops = 3
    /\ Len(allocations) = 1 /\ allocations[1].index = 1

(***************************************************************************)
(* Histories of every archetype: global state after genesis.               *)
(***************************************************************************)
TransitionsOf(sc) == DOMAIN Schemas[sc].transitions
DeclaresGlobals(sc, tt) == DOMAIN Schemas[sc].transitions[tt].globals /= {}
OnceSlots(sc) ==
    {k \in DOMAIN Schemas[sc].global_types : Schemas[sc].global_types[k].max_items = 1}

C28_Declared ==
    /\ \A sc \in FixedSupplySchemas : \A tt \in TransitionsOf(sc) :
          /\ ~DeclaresGlobals(sc, tt)
          /\ Schemas[sc].transitions[tt].metadata = {}
    /\ \A sc \in SchemaNames : \A tt \in TransitionsOf(sc) :
          DeclaresGlobals(sc, tt) =>
              /\ sc = "IFA" /\ tt = TS_INFLATION
              /\ Schemas[sc].transitions[tt].globals = (GS_ISSUED_SUPPLY :> Once)
    /\ \A sc \in SchemaNames :
          DOMAIN Schemas[sc].global_types \ OnceSlots(sc) =
              IF sc = "IFA" THEN {GS_ISSUED_SUPPLY} ELSE {}

C28_OnceHeld ==
    /\ \A k \in OnceSlots(schema) : Len(ledger.globals[k]) <= 1
    /\ \A k \in GlobalSlots \ DOMAIN Schemas[schema].global_types :
          ledger.globals[k] = << >>

C28_Step ==
    (ledger' /= ledger /\ op.kind = "transition") =>
        IF schema = "IFA" /\ op.ttype = TS_INFLATION
        THEN ledger'.globals =
                [ledger.globals EXCEPT
                    ![GS_ISSUED_SUPPLY] = Append(@, DeclaredIssued)]
        ELSE /\ ledger'.globals = ledger.globals
             /\ \A k \in MetaSlots : op.metadata[k] = << >>

\* C28: no transition of NIA, CFA, PFA or UDA declares global state or
\* metadata, and an applied transition of theirs leaves every global value as
\* genesis set it; the only transition of any archetype that adds global
\* state is the IFA inflate, which appends exactly one issuedSupply entry;
\* issuedSupply of IFA is the only slot not declared exactly-once, and no
\* exactly-once slot ever holds more than one value.
C28_GlobalsFrozen == [](C28_Declared /\ C28_OnceHeld) /\ [][C28_Step]_vars

\* Reached: an IFA contract that has applied an inflation holds two
\* issuedSupply entries and still one maxSupply.
C28_Witness ==
    /\ schema = "IFA" /\ Idle
    /\ Len(ledger.globals[GS_ISSUED_SUPPLY]) = 2
    /\ Len(ledger.globals[GS_MAX_SUPPLY]) = 1

(***************************************************************************)
(* Referential closure of the schemas.                                     *)
(***************************************************************************)
\* Schema::default_assignment of each archetype (pfa_schema sets none).
default_assignment ==
    [NIA |-> Some(OS_ASSET), CFA |-> Some(OS_ASSET), PFA |-> None,
     IFA |-> Some(OS_ASSET), UDA |-> Some(OS_ASSET)]

\* What the genesis or the transition of an operation declares.
DeclOf(sc, o) ==
    IF o.kind = "genesis"
    THEN [globals |-> DOMAIN Schemas[sc].genesis.globals,
          metadata |-> Schemas[sc].genesis.metadata,
          inputs |-> {},
          assignments |-> DOMAIN Schemas[sc].genesis.assignments]
    ELSE [globals |-> DOMAIN Schemas[sc].transitions[o.ttype].globals,
          metadata |-> Schemas[sc].transitions[o.ttype].metadata,
          inputs |-> DOMAIN Schemas[sc].transitions[o.ttype].inputs,
          assignments |-> DOMAIN Schemas[sc].transitions[o.ttype].assignments]

SlotClosed(sc) ==
    LET S == Schemas[sc]
    IN  /\ DOMAIN S.genesis.globals \subseteq DOMAIN S.global_types
        /\ DOMAIN S.genesis.assignments \subseteq DOMAIN S.owned_types
        /\ S.genesis.metadata \subseteq S.meta_types
        /\ \A tt \in DOMAIN S.transitions :
              /\ DOMAIN S.transitions[tt].globals \subseteq DOMAIN S.global_types
              /\ DOMAIN S.transitions[tt].inputs \subseteq DOMAIN S.owned_types
              /\ DOMAIN S.transitions[tt].assignments \subseteq DOMAIN S.owned_types
              /\ S.transitions[tt].metadata \subseteq S.meta_types
        /\ \A ty \in DOMAIN S.owned_types :
              S.owned_types[ty].default_transition \in DOMAIN S.transitions
        /\ IsSome(default_assignment[sc]) =>
              Val(default_assignment[sc]) \in DOMAIN S.owned_types

\* The slot an instruction reads is declared by the operation under
\* validation.
ReadDeclared(d, i) ==
    CASE i.op \in {"ldg", "ldc"} -> i.slot \in d.globals
      [] i.op = "ldm" -> i.slot \in d.metadata
      [] i.op \in {"ldp", "sps", "cnp"} -> i.ty \in d.inputs
      [] i.op \in {"lds", "sas", "cns"} -> i.ty \in d.assignments
      [] i.op = "svs" -> i.ty \in d.inputs /\ i.ty \in d.assignments
      [] OTHER -> TRUE

\* The two reads of a slot that only the genesis declares: the issuer's key
\* read from the contract state by pfa_lib_transition, and the inflation
\* rights summed by ifa_lib_transfer when it validates a replace.
ReadsGenesisSlot(sc, o, i) ==
    \/ /\ i.op = "ldc"
       /\ i.slot \in DOMAIN Schemas[sc].genesis.globals
    \/ /\ sc = "IFA" /\ o.kind = "transition" /\ o.ttype = TS_REPLACE
       /\ i = Svs(OS_INFLATION)
       /\ OS_INFLATION \in DOMAIN Schemas[sc].genesis.assignments

\* The statement without the two exceptions.
C29_AsStated ==
    /\ \A sc \in SchemaNames : SlotClosed(sc)
    /\ AtInstr => ReadDeclared(DeclOf(schema, op), Cur)

\* C29: every slot a genesis or transition names is declared by its schema,
\* every default_transition is a transition of the schema and every
\* default_assignment an owned type of it, and every slot an instruction
\* reads is declared by the operation under validation, or by the genesis in
\* the case of the key read with ldc and of the inflation rights summed
\* while a replace is validated.
C29_Closure ==
    /\ \A sc \in SchemaNames : SlotClosed(sc)
    /\ AtInstr =>
          \/ ReadDeclared(DeclOf(schema, op), Cur)
          \/ ReadsGenesisSlot(schema, op, Cur)

\* Reached: a replace is being validated and the next instruction sums the
\* inflation rights.
C29_Witness ==
    /\ schema = "IFA" /\ IsTransition(TS_REPLACE)
    /\ AtInstr /\ Cur = Svs(OS_INFLATION)

(***************************************************************************)
(* The table of error codes.                                               *)
(***************************************************************************)
\* The ERRNO_* constants the crate root defines.
ErrnoTable ==
    {ERRNO_NON_EQUAL_IN_OUT, ERRNO_ISSUED_MISMATCH, ERRNO_NON_FRACTIONAL,
     ERRNO_MISSING_PUBKEY, ERRNO_INVALID_SIGNATURE, ERRNO_INFLATION_MISMATCH,
     ERRNO_INFLATION_EXCEEDS_ALLOWANCE}

\* The places of a library that load a8[0].
ErrnoSites(l) ==
    {k \in 1..Len(Libs[l]) : Libs[l][k].op = "put" /\ Libs[l][k].dst = "a8[0]"}

\* C30: every code a program loads into a8[0] is one of the ERRNO_*
\* constants of the crate root, those constants are pairwise distinct, and
\* no two loads of a8[0] in one program load the same code.
C30_ErrnoTable ==
    /\ Cardinality(ErrnoTable) = 7
    /\ \A l \in DOMAIN Libs : \A j, k \in ErrnoSites(l) :
          j /= k => Libs[l][j].imm /= Libs[l][k].imm
    /\ IsSome(vm.a["a8[0]"]) => Val(vm.a["a8[0]"]) \in ErrnoTable

=============================================================================
